---- MODULE Spec2Model ----
(***************************************************************************)
(* Anti-nuke event correlation of the Nexus moderation bot: the gateway    *)
(* event handlers channelCreate, guildBanRemove, webhooksUpdate and        *)
(* emojiUpdate, each an async function whose awaits are the points where   *)
(* other handlers interleave, together with the anti-nuke engine and the   *)
(* action tracker they call.  The handlers are translated from the source; *)
(* the engine and the tracker (utils/advancedAntiNuke, eventActionTracker) *)
(* are modelled from the written specification.                            *)
(***************************************************************************)
EXTENDS Integers, Sequences, FiniteSets, Bags, TLC

\* ---------------------------------------------------------------- bounds
MaxTicks == 1
MaxTracked == 3
MaxLogRows == 1
MaxBurstRows == 7
MaxRaceTracked == 1
MaxTrackerTicks == 3
MaxTieTracked == 6
MaxWebhooks == 2
MaxHubCalls == 2
MaxRequests == 3
MaxLimiterTicks == 3
MaxFilterCalls == 3
MaxBlocks == 3
MaxDbVersion == 2
MaxChecks == 5
MaxRuns == 2
MaxPosition == 2
MaxCommands == 2
MaxRedisCalls == 3
MaxRedisRuns == 2
MaxScheduledTicks == 2
MaxClusters == 3
MaxOperations == 2
MaxRefused == 1

\* ------------------------------------------------------- program constants
AuditToleranceMs == 5000
UnbanWindowMs == 60000
UnbanThreshold == 5
WebhookWindowMs == 60000
MinSpamLen == 3
HeavyPoints == 2
HeavyDurationS == 30
CleanupMaxAgeMs == 600000
difficulty == 2
miningReward == 10
AutoMineLength == 5

\* ------------------------------------------- configuration of the engine
SoftThreshold == 1
HardThreshold == 2
WindowMs == 60000
TickMs == 30000

\* --------------------------------------------------------------- universe
NULL == "null"
Guilds == {"g1", "g2"}
Actors == {"a1", "a2"}
TargetIds == {"t1", "t2"}
EventTarget == "t1"
Handlers == {"h1", "h2"}
AuditAges == {0, 4999, 5000}

VARIABLES
  handlers,        \* one record per running execute() call
  lockedGuilds,    \* client.advancedAntiNuke.lockedGuilds
  monitoring,      \* guilds whose GuildSecurityState is Monitoring
  actionWindows,   \* eventActionTracker: (guild, actor) -> timestamps
  logs,            \* rows of the logs table
  client,          \* which optional services are attached to the client
  now,             \* Date.now()
  trackCalls,      \* every trackAction call so far: (guild, actor) -> times
  hub,             \* WebhookHub: the webhook_integrations table and a call
  limiter,         \* AdvancedRateLimiter: fallbackStore and the last result
  filter,          \* ContentFilter: lastIndex of each pattern, the last call
  chain,           \* BlockchainThreatIntel: blocks, pending pool, the file
  backup,          \* AutomaticBackup: running, the database, the backup files
  monitor,         \* Shard/ClusterHealthMonitor: health objects, running checks
  moderation,      \* ban, kick and timeout commands: the running execute() call
  redis,           \* AdvancedRateLimiter over Redis: the sorted set of a key, running calls
  rolling          \* ClusterRollingRestart: isRestarting and the running operation

\* the state of the services outside the anti-nuke engine
services == <<hub, limiter, filter, chain, backup, monitor, moderation, redis, rolling>>

\* the state of the event handlers, the engine and the tracker
antiNuke == <<handlers, lockedGuilds, monitoring, actionWindows, logs, client,
              now, trackCalls>>

\* everything but the one service
notHub == <<antiNuke, limiter, filter, chain, backup, monitor, moderation, redis, rolling>>
notLimiter == <<antiNuke, hub, filter, chain, backup, monitor, moderation, redis, rolling>>
notFilter == <<antiNuke, hub, limiter, chain, backup, monitor, moderation, redis, rolling>>
notChain == <<antiNuke, hub, limiter, filter, backup, monitor, moderation, redis, rolling>>
notBackup == <<antiNuke, hub, limiter, filter, chain, monitor, moderation, redis, rolling>>
notMonitor == <<antiNuke, hub, limiter, filter, chain, backup, moderation, redis, rolling>>
notModeration == <<antiNuke, hub, limiter, filter, chain, backup, monitor, redis, rolling>>
notRedis == <<antiNuke, hub, limiter, filter, chain, backup, monitor, moderation, rolling>>
notRolling == <<antiNuke, hub, limiter, filter, chain, backup, monitor, moderation, redis>>

vars == <<handlers, lockedGuilds, monitoring, actionWindows, logs, client,
          now, trackCalls, services>>

\* ------------------------------------------------------- channel names
Letters == {"a", "c", "d", "e", "g", "h", "i", "k", "l", "n", "r", "t",
            "u", "A", "D", "I", "R"}
Digits == {"0", "9"}
Whitespace == {" "}

\* the characters the class [^a-zA-Z0-9\s-_] excludes
WordChars == Letters \cup Digits \cup Whitespace \cup {"-", "_"}

ChannelNames ==
  { <<"g", "e", "n", "e", "r", "a", "l">>,
    <<"n", "u", "k", "e", "d">>,
    <<"g", "e", "t", "-", "r", "a", "i", "d", "e", "d">>,
    <<"h", "a", "c", "k", "e", "d", "!">>,
    <<"R", "A", "I", "D">>,
    <<"@", "#", "!">>,
    <<"@", "#">>,
    <<"@", "-", "!">>,
    <<"@", "_", "!", "$">>,
    <<"@", " ", "!">> }

\* String.prototype.includes
Includes(s, sub) ==
  \E i \in 1..(Len(s) - Len(sub) + 1) : SubSeq(s, i, i + Len(sub) - 1) = sub

\* /^[^a-zA-Z0-9\s-_]{3,}$/.test(name)
SpamCharacters(name) ==
  /\ Len(name) >= MinSpamLen
  /\ \A i \in 1..Len(name) : name[i] \notin WordChars

isRaidChannel(name) ==
  \/ Includes(name, <<"n", "u", "k", "e", "d">>)
  \/ Includes(name, <<"r", "a", "i", "d">>)
  \/ Includes(name, <<"h", "a", "c", "k", "e", "d">>)
  \/ SpamCharacters(name)

\* ------------------------------------------------------ action tracker
\* a sweep that purges nothing
Sweep_KeepsAll(window, w) == window

\* entries of a window that are still inside the trailing w milliseconds
Sweep(window, w) == SelectSeq(window, LAMBDA ts : ts >= now - w)

getCount(windows, g, actorId, w) == Len(Sweep(windows[<<g, actorId>>], w))

\* the windows after trackAction(g, "CHANNEL_CREATE", actorId, metadata)
trackAction(g, actorId) ==
  [actionWindows EXCEPT ![<<g, actorId>>] = Sweep(Append(@, now), WindowMs)]

RECURSIVE SumLen(_, _)
SumLen(windows, keys) ==
  IF keys = {} THEN 0
  ELSE LET k == CHOOSE x \in keys : TRUE
       IN Len(windows[k]) + SumLen(windows, keys \ {k})

\* the number of entries the tracker holds
Tracked(windows) == SumLen(windows, DOMAIN windows)

\* ------------------------------------------------- escalation policy
EntersLockdown(windows, g, actorId, instantTrigger) ==
  instantTrigger \/ getCount(windows, g, actorId, WindowMs) > HardThreshold

EntersMonitoring(windows, g, actorId) ==
  getCount(windows, g, actorId, WindowMs) > SoftThreshold

\* handleMassAction(guild, executor, "mass_unban", count) locks the guild
LockedAfterMassAction(g) == lockedGuilds \cup {g}

\* an evaluation below the thresholds puts the guild back to normal
LockedAfterMonitor_Resets(windows, g, actorId, instantTrigger) ==
  IF EntersLockdown(windows, g, actorId, instantTrigger)
    THEN lockedGuilds \cup {g}
    ELSE lockedGuilds \ {g}

\* lockedGuilds after monitorAction(guild, type, actorId, metadata)
LockedAfterMonitor(windows, g, actorId, instantTrigger) ==
  IF EntersLockdown(windows, g, actorId, instantTrigger)
    THEN lockedGuilds \cup {g}
    ELSE lockedGuilds

\* the guilds that have left Normal after monitorAction(...)
MonitoringAfterMonitor(windows, g, actorId, instantTrigger) ==
  IF EntersMonitoring(windows, g, actorId)
    THEN monitoring \cup {g}
    ELSE monitoring

\* GuildSecurityState.status
Status(g) ==
  IF g \in lockedGuilds THEN "Lockdown"
  ELSE IF g \in monitoring THEN "Monitoring" ELSE "Normal"

\* ---------------------------------------------------------- audit log
\* what guild.fetchAuditLogs({limit: 1, type}) can settle with
AuditOutcomes(executors) ==
  { [kind |-> "reject", executor |-> NULL, target |-> NULL, age |-> 0],
    [kind |-> "empty", executor |-> NULL, target |-> NULL, age |-> 0] }
  \cup [kind : {"entry"}, executor : executors \cup {NULL},
        target : TargetIds \cup {NULL}, age : AuditAges]

\* ------------------------------------------------------------ handlers
\* the locals of the attribution block, and the block left again
NoEntry == [actor |-> NULL, targetMatched |-> FALSE, fresh |-> FALSE]

Idle ==
  [kind |-> "idle", pc |-> "idle", guild |-> NULL, raid |-> FALSE,
   arrivedLocked |-> FALSE, arrivedRestoring |-> FALSE, entry |-> NoEntry,
   unattributed |-> FALSE, auditError |-> FALSE, deleted |-> "none", deleteOk |-> FALSE,
   tracked |-> FALSE, monitored |-> "none", logged |-> FALSE,
   modLog |-> FALSE, recent |-> 0, escalated |-> FALSE, threw |-> "none"]

Arrive(kind, g) ==
  [Idle EXCEPT !.kind = kind, !.guild = g,
               !.arrivedLocked = (g \in lockedGuilds)]

\* the audit entry o taken as the attribution of the event on EventTarget
Attribution(o) ==
  [actor |-> o.executor, targetMatched |-> (o.target = EventTarget),
   fresh |-> (o.age < AuditToleranceMs)]

\* ----------------------------------------------------------- WebhookHub
EventTypes == {"raid.detected", "member.join"}

\* the events argument of registerWebhook as a JSON value: arrays of event
\* types, and null
JsonArray(items) == [type |-> "array", items |-> items]
JsonNull == [type |-> "null", items |-> <<>>]
EventLists == {JsonArray(<<"raid.detected">>), JsonArray(<<"member.join">>),
               JsonNull}

WebhookUrls == {"https://hooks.example/a", "http://hooks.example/a",
                "https://10.0.0.1/a", "not a url"}

\* new URL(webhookUrl) and the protocol and address checks on it
UrlCheck(url) ==
  CASE url = "not a url" -> "invalid"
    [] url = "http://hooks.example/a" -> "non-https"
    [] url = "https://10.0.0.1/a" -> "private"
    [] OTHER -> "ok"

\* JSON.stringify(events) as stored in the events column
Stringify(events) ==
  IF events.type = "null" THEN "null"
  ELSE IF events.items = <<"raid.detected">> THEN "[\"raid.detected\"]"
  ELSE "[\"member.join\"]"

\* JSON.parse(webhook.events)
Parse(text) ==
  IF text = "null" THEN JsonNull
  ELSE IF text = "[\"raid.detected\"]" THEN JsonArray(<<"raid.detected">>)
  ELSE JsonArray(<<"member.join">>)

\* events.includes(eventType): a TypeError when events is not an array
EventsInclude(events, eventType) ==
  IF events.type # "array" THEN "throws"
  ELSE IF \E i \in 1..Len(events.items) : events.items[i] = eventType
    THEN "yes"
  ELSE "no"

HubIdle ==
  [pc |-> "idle", guild |-> NULL, eventType |-> NULL, webhooks |-> <<>>,
   i |-> 0, attempted |-> {}, delivered |-> {}, aborted |-> FALSE,
   rejected |-> FALSE]

\* -------------------------------------------------- AdvancedRateLimiter
Identifiers == {"u1", "u2"}
WhitelistDurationsS == {60}

\* fallbackStore has no entry under the key
NoBucket == [present |-> FALSE, stamps |-> <<>>]
NoWhitelist == [whitelisted |-> FALSE, expires |-> 0]
NoResult == [via |-> "none", identifier |-> NULL, allowed |-> TRUE,
             count |-> 0, status |-> 0, whitelisted |-> FALSE]

\* isWhitelisted(identifier, type) on the in-memory store
isWhitelisted(store, identifier) ==
  store[identifier].whitelisted /\ store[identifier].expires > now

\* bucket.push(now), then the filter of the timestamps inside the window
PushAndFilter(bucket, durationS) ==
  [present |-> TRUE,
   stamps |-> SelectSeq(Append(bucket.stamps, now),
                        LAMBDA ts : ts > now - durationS * 1000)]

\* cleanupMemoryStore(): buckets that are empty or idle for ten minutes go
cleanupMemoryStore(buckets) ==
  [id \in Identifiers |->
     IF /\ buckets[id].present
        /\ \/ Len(buckets[id].stamps) = 0
           \/ buckets[id].stamps[Len(buckets[id].stamps)]
                 < now - CleanupMaxAgeMs
       THEN NoBucket ELSE buckets[id]]

\* -------------------------------------------------------- ContentFilter
\* three of the terms of the list, in the order of the list
offensiveTerms == << <<"n", "a", "z", "i">>, <<"k", "k", "k">>,
                     <<"r", "3", "4">> >>

Texts == { <<>>, <<"o", "k">>, <<"k", "k", "k">>, <<"K", "K", "K">>,
           <<"a", " ", "k", "k", "k">>, <<"n", "a", "z", "i">>,
           <<"r", "3", "4", " ", "k", "k", "k">> }

\* String.prototype.toLowerCase on the characters of the texts
LowerChar(c) ==
  CASE c = "K" -> "k" [] c = "A" -> "a" [] c = "D" -> "d" [] c = "I" -> "i"
    [] c = "R" -> "r" [] OTHER -> c

toLowerCase(text) == [i \in 1..Len(text) |-> LowerChar(text[i])]

\* the 0-based offsets from which the term matches, case-insensitively
MatchOffsets(term, text) ==
  { i \in 0..(Len(text) - Len(term)) :
      toLowerCase(SubSeq(text, i + 1, i + Len(term))) = term }

Min(S) == CHOOSE x \in S : \A y \in S : x <= y

\* pattern.test(text) for a pattern with the g flag: the search starts at
\* lastIndex, a match leaves lastIndex behind it, a failure resets it
RegExpTest(term, text, lastIndex) ==
  LET offsets == {i \in MatchOffsets(term, text) : i >= lastIndex}
  IN IF lastIndex > Len(text) \/ offsets = {}
       THEN [matched |-> FALSE, lastIndex |-> 0]
       ELSE [matched |-> TRUE, lastIndex |-> Min(offsets) + Len(term)]

\* offensivePatterns.some(pattern => pattern.test(text)) from pattern t on:
\* the patterns are tested in order until one matches
RECURSIVE Some(_, _, _)
Some(t, text, lastIndex) ==
  IF t > Len(offensiveTerms) THEN [returned |-> FALSE, lastIndex |-> lastIndex]
  ELSE LET test == RegExpTest(offensiveTerms[t], text, lastIndex[t])
           after == [lastIndex EXCEPT ![t] = test.lastIndex]
       IN IF test.matched THEN [returned |-> TRUE, lastIndex |-> after]
          ELSE Some(t + 1, text, after)

\* isOffensive(text): the result and the lastIndex of the patterns after it
isOffensive(text, lastIndex) ==
  IF text = <<>> THEN [returned |-> FALSE, lastIndex |-> lastIndex]
  ELSE Some(1, toLowerCase(text), lastIndex)

\* text.replace(pattern, "[REDACTED]") from offset i on
RECURSIVE Replace(_, _, _)
Replace(term, text, i) ==
  IF i >= Len(text) THEN <<>>
  ELSE IF i \in MatchOffsets(term, text)
    THEN <<"[REDACTED]">> \o Replace(term, text, i + Len(term))
    ELSE <<text[i + 1]>> \o Replace(term, text, i + 1)

\* sanitize(text): every pattern replaced in turn
RECURSIVE sanitize(_, _)
sanitize(text, t) ==
  IF t > Len(offensiveTerms) THEN text
  ELSE sanitize(Replace(offensiveTerms[t], text, 0), t + 1)

\* what the text contains, whatever was checked before
ContainsTerm(text) ==
  \E t \in 1..Len(offensiveTerms) : MatchOffsets(offensiveTerms[t], text) # {}

NoCheck == [via |-> "none", text |-> <<>>, returned |-> FALSE,
            sanitizedName |-> <<>>]

\* ------------------------------------------------ BlockchainThreatIntel
Miners == {"system", "r1"}

\* crypto.createHash("sha256").update(input).digest("hex"): one digest per
\* input
Sha256(input) == [sha256 |-> input]

\* the previousHash "0" of the genesis block
ZeroHash == [sha256 |-> <<>>]

\* calculateHash: index + timestamp is a sum of numbers, the rest is
\* appended to it as text
calculateHash(index, timestamp, transactions, previousHash, nonce) ==
  Sha256(<<index + timestamp, transactions, previousHash, nonce>>)

\* the zeros a digest starts with, here decided by the nonce it was made of
LeadingZeros(hash) ==
  IF hash = ZeroHash THEN 0 ELSE hash.sha256[4] % 3

\* hash.startsWith("0".repeat(this.difficulty))
MeetsDifficulty(hash) == LeadingZeros(hash) >= difficulty

\* calculateMerkleRoot(transactions)
calculateMerkleRoot(transactions) ==
  IF Len(transactions) = 0 THEN ZeroHash
  ELSE Sha256(<<0, transactions, ZeroHash, 0>>)

GenesisTransaction == [type |-> "genesis", timestamp |-> 0, who |-> NULL]

\* createGenesisBlock() at the time t
createGenesisBlock(t) ==
  [index |-> 0, timestamp |-> t, transactions |-> <<GenesisTransaction>>,
   previousHash |-> ZeroHash, hash |-> calculateHash(0, t, <<>>, ZeroHash, 0),
   nonce |-> 0, merkleRoot |-> ZeroHash, miner |-> NULL]

\* isValidBlock(newBlock, previousBlock)
isValidBlock(newBlock, previousBlock) ==
  /\ newBlock.index = previousBlock.index + 1
  /\ newBlock.previousHash = previousBlock.hash
  /\ newBlock.hash = calculateHash(newBlock.index, newBlock.timestamp,
                                   newBlock.transactions,
                                   newBlock.previousHash, newBlock.nonce)
  /\ MeetsDifficulty(newBlock.hash)
  /\ newBlock.merkleRoot = calculateMerkleRoot(newBlock.transactions)

\* isValidChain() at the time t
isValidChain(blocks, t) ==
  /\ blocks[1] = createGenesisBlock(t)
  /\ \A i \in 2..Len(blocks) : isValidBlock(blocks[i], blocks[i - 1])

\* the proof of work: the first nonce from 1 on whose hash meets the
\* difficulty
RECURSIVE ProofOfWork(_, _, _, _, _)
ProofOfWork(index, timestamp, transactions, previousHash, nonce) ==
  IF MeetsDifficulty(calculateHash(index, timestamp, transactions,
                                   previousHash, nonce))
    THEN nonce
    ELSE ProofOfWork(index, timestamp, transactions, previousHash, nonce + 1)

\* the chain after mineBlock(minerAddress)
mineBlock(c, minerAddress) ==
  IF Len(c.pendingTransactions) = 0 THEN c
  ELSE LET previousBlock == c.blocks[Len(c.blocks)]
           index == previousBlock.index + 1
           transactions ==
             Append(c.pendingTransactions,
                    [type |-> "mining_reward", timestamp |-> now,
                     who |-> minerAddress])
           nonce == ProofOfWork(index, now, transactions,
                                previousBlock.hash, 1)
           newBlock ==
             [index |-> index, timestamp |-> now,
              transactions |-> transactions,
              previousHash |-> previousBlock.hash,
              hash |-> calculateHash(index, now, transactions,
                                     previousBlock.hash, nonce),
              nonce |-> nonce,
              merkleRoot |-> calculateMerkleRoot(transactions),
              miner |-> minerAddress]
       IN IF isValidBlock(newBlock, previousBlock)
            THEN [c EXCEPT !.blocks = Append(@, newBlock),
                           !.pendingTransactions = <<>>,
                           !.file = Append(c.blocks, newBlock)]
            ELSE [c EXCEPT !.pendingTransactions = transactions]

\* ------------------------------------------------- ClusterRollingRestart
ClusterOrders == {"sequential", "reverse"}
BatchSizes == {1, 2}

\* Array.from(manager.clusters.values()): the clusters have the ids 0..size-1
ClusterValues(size) == [k \in 1..size |-> k - 1]

\* clusters.reverse()
Reverse(seq) == [k \in 1..Len(seq) |-> seq[Len(seq) + 1 - k]]

\* the slices clusters.slice(i, i + batchSize) for i = 0, batchSize, ...
Batches(clusters, batchSize) ==
  [b \in 1..((Len(clusters) + batchSize - 1) \div batchSize) |->
     SubSeq(clusters, (b - 1) * batchSize + 1,
            IF b * batchSize < Len(clusters) THEN b * batchSize
                                             ELSE Len(clusters))]

\* no operation is running; of the running one: its kind, the clusters or
\* batches it walks through and the position i in them. killed, succeeded,
\* delayed (the clusters, or the numbers of the batches, after which the
\* delay was waited) and failed tell what the operation has done so far;
\* refused and operations count the calls
RollingIdle == [isRestarting |-> FALSE, pc |-> "idle", kind |-> "none",
                size |-> 0, clusters |-> <<>>, batches |-> <<>>, i |-> 0,
                killed |-> <<>>, succeeded |-> {}, delayed |-> {},
                failed |-> FALSE, refused |-> 0, operations |-> 0]

\* isInProgress()
isInProgress(r) == r.isRestarting

\* the call returns at once: "Rolling restart already in progress"
Refuses(r) == [r EXCEPT !.refused = @ + 1]

\* the operation sets isRestarting and comes to its first cluster or batch
Begins(r, kind, size, clusters, batches) ==
  [r EXCEPT !.isRestarting = TRUE, !.pc = "kill", !.kind = kind,
            !.size = size, !.clusters = clusters, !.batches = batches,
            !.i = 1, !.killed = <<>>, !.succeeded = {}, !.delayed = {},
            !.failed = FALSE, !.operations = @ + 1]

Finally_KeepsFlag(r) == [r EXCEPT !.pc = "idle"]

\* the finally of restart and of batchRestart
Finally(r) == [r EXCEPT !.isRestarting = FALSE, !.pc = "idle"]

\* the for loop goes on to the next cluster or batch
NextCluster(r) == [r EXCEPT !.i = @ + 1, !.pc = "kill"]

\* cluster.id < manager.clusters.size - 1, and for a batch
\* batchIndex < batches.length - 1
WaitsBeforeNext(r) ==
  IF r.kind = "restart" THEN r.clusters[r.i] < r.size - 1
                        ELSE r.i - 1 < Len(r.batches) - 1

\* ---------------------------------------- AdvancedRateLimiter, Redis backend
RedisRuns == 1..MaxRedisRuns

NoRedisCall == [pc |-> "idle", now |-> 0, count |-> 0]

\* the sorted set under one key "ratelimit:command_heavy:<key>", as a set of
\* members with their scores, the running checkRedisLimit calls, and the
\* results so far: the times (the now of the call) of the calls that returned
\* allowed: true from their count, and the number of calls answered
RedisIdle == [zset |-> {}, calls |-> [r \in RedisRuns |-> NoRedisCall],
              allowedAt |-> <<>>, answered |-> 0]

\* ZADD key score member: a member that is in the set already is not added
\* again, its score is updated
zAdd(zset, score, value) ==
  {m \in zset : m.value # value} \cup {[value |-> value, score |-> score]}

\* ZREMRANGEBYSCORE key min max
zRemRangeByScore(zset, min, max) ==
  {m \in zset : ~(min <= m.score /\ m.score <= max)}

\* ZCARD key
zCard(zset) == Cardinality(zset)

\* the catch of checkRedisLimit: the request is allowed
FailOpen(rd, r) ==
  [rd EXCEPT !.calls[r] = NoRedisCall, !.answered = @ + 1]

\* --------------------------------------------- ban, kick, timeout commands
Commands == {"ban", "kick", "timeout"}
OwnerId == "owner"
BotId == "bot"
Users == {OwnerId, BotId, "u1", "u2"}
Positions == 1..MaxPosition

\* no execute() call is running; of a running one: the options and the guild
\* as the call sees them, whether Moderation.ban/kick/mute has been called,
\* and the reply; calls counts the calls that have returned
NoCommand == [pc |-> "idle", calls |-> 0, command |-> "none", invoker |-> NULL,
              target |-> NULL, invokerPosition |-> 0, targetPosition |-> 0,
              inGuild |-> FALSE, manageable |-> FALSE, executed |-> FALSE,
              reply |-> "none"]

\* the handler returns interaction.reply(message)
Replies(c, message) == [c EXCEPT !.pc = "done", !.reply = message]

\* the handler awaits Moderation.ban / kick / mute
CallsModeration(c) == [c EXCEPT !.pc = "await_moderation", !.executed = TRUE]

\* !isOwner && member.roles.highest.position >=
\*   interaction.member.roles.highest.position
HierarchyRejects(c) ==
  /\ c.invoker # OwnerId
  /\ c.targetPosition >= c.invokerPosition

\* the checks on the fetched member, then the call
AfterMemberChecks(c) ==
  IF ~c.manageable THEN Replies(c, "botTargetHigherRole")
  ELSE IF HierarchyRejects(c) THEN Replies(c, "targetHigherRole")
  ELSE CallsModeration(c)

\* ------------------------------------- ShardHealthMonitor, ClusterHealthMonitor
unhealthyThreshold == 3
maxPing == 500
maxMemory == 512
maxResponseTime == 1000

MonitorKinds == {"shard", "cluster"}
Runs == 1..MaxRuns

\* what shard.eval / cluster.eval resolves to: NULL when the process did not
\* answer, else the metrics the checks look at (time is the ping of a shard
\* and the response time of a cluster)
EvalResults ==
  {[answered |-> FALSE, time |-> 0, memory |-> 0, status |-> 0]}
  \cup [answered : {TRUE}, time : {100, 1500}, memory : {100, 600},
        status : {0, 5}]

\* the number of entries of the issues array
Issues(kind, metrics) ==
  IF kind = "shard"
    THEN (IF metrics.time > maxPing THEN 1 ELSE 0)
         + (IF metrics.memory > maxMemory THEN 1 ELSE 0)
         + (IF metrics.status # 0 THEN 1 ELSE 0)
    ELSE (IF metrics.time > maxResponseTime THEN 1 ELSE 0)
         + (IF metrics.status # 0 THEN 1 ELSE 0)

\* the health object after the metrics have been looked at
Checked(kind, health, metrics) ==
  IF ~metrics.answered
    THEN [failedChecks |-> health.failedChecks + 1, status |-> "unresponsive"]
    ELSE IF Issues(kind, metrics) > 0
      THEN [failedChecks |-> health.failedChecks + 1, status |-> "degraded"]
      ELSE [failedChecks |-> 0, status |-> "healthy"]

needsRestart(health) == health.failedChecks >= unhealthyThreshold

NoRun == [pc |-> "idle", health |-> 0]

\* the monitor before start(manager): objects are the health objects made so
\* far, current the one the map holds for the shard, and each run holds the
\* object it read from the map; checks, restarts and streak (the failed
\* checks settled since the last healthy check or finished restart) are
\* history
NotStarted == [kind |-> "none", objects |-> <<>>, current |-> 0,
               runs |-> [r \in Runs |-> NoRun],
               checks |-> 0, restarts |-> 0, streak |-> 0]

\* getShardHealth(shardId)
getShardHealth(m) == m.objects[m.current]

\* ------------------------------------------------------ AutomaticBackup
BackupTypes == {"manual"}

\* the schedules of scheduleBackups, in the order they are registered, and
\* the sets of them that are due at one instant: every hour, 03:00, and
\* 03:00 on Sunday
ScheduleTypes == <<"hourly", "daily", "weekly">>
DueSets == {{"hourly"}, {"hourly", "daily"}, {"hourly", "daily", "weekly"}}

\* no createBackup call and no restoreBackup call is running
NoCreate == [pc |-> "idle", type |-> NULL, content |-> 0, nested |-> FALSE,
             returned |-> FALSE]
NoRestore == [pc |-> "idle", source |-> 0, before |-> 0, threw |-> "none"]

\* createBackup(type) up to its first await: skipped while an operation is
\* running, else running is set and the database file is being copied
StartCreate(b, type, nested) ==
  IF b.running
    THEN [b EXCEPT !.create = [NoCreate EXCEPT !.pc = "done", !.type = type,
                                               !.nested = nested]]
    ELSE [b EXCEPT !.running = TRUE,
                   !.create = [NoCreate EXCEPT !.pc = "await_copy",
                                               !.type = type,
                                               !.nested = nested]]

CreateFails_KeepsRunning(b) == [b EXCEPT !.create.pc = "done"]

\* the catch and the finally of createBackup
CreateFails(b) == [b EXCEPT !.running = FALSE, !.create.pc = "done"]

Init ==
  /\ handlers = [h \in Handlers |-> Idle]
  /\ lockedGuilds = {}
  /\ monitoring = {}
  /\ actionWindows = [k \in Guilds \X Actors |-> <<>>]
  /\ trackCalls = [k \in Guilds \X Actors |-> <<>>]
  /\ logs = EmptyBag
  /\ client \in { [advancedAntiNuke |-> FALSE, eventActionTracker |-> FALSE],
                  [advancedAntiNuke |-> TRUE, eventActionTracker |-> FALSE],
                  [advancedAntiNuke |-> TRUE, eventActionTracker |-> TRUE] }
  /\ now = 0
  /\ hub = [rows |-> <<>>, lastRegister |-> "none", calls |-> 0,
            call |-> HubIdle]
  /\ monitor = NotStarted
  /\ rolling = RollingIdle
  /\ redis = RedisIdle
  /\ moderation = NoCommand
  /\ backup = [running |-> FALSE, db |-> 0, files |-> {},
               create |-> NoCreate, restore |-> NoRestore,
               due |-> {}, skipped |-> {}, ticks |-> 0]
  /\ chain = [initialized |-> FALSE, blocks |-> <<>>,
              pendingTransactions |-> <<>>, file |-> <<>>,
              valid |-> "none"]
  /\ filter = [lastIndex |-> [t \in 1..Len(offensiveTerms) |-> 0],
               calls |-> 0, last |-> NoCheck]
  /\ limiter = [buckets |-> [id \in Identifiers |-> NoBucket],
                whitelist |-> [id \in Identifiers |-> NoWhitelist],
                last |-> NoResult]

\* -------------------------------------------------------- channelCreate
\* a gate that never closes
GateBlocks_Never(g) == FALSE

\* the lockdown gate of channelCreate
GateBlocks(g) == client.advancedAntiNuke /\ g \in lockedGuilds

\* execute(): backupManager.isRestoring(guild) is true, nothing is processed
ChannelCreateRestoring(h, g, name) ==
  /\ handlers[h].kind = "idle"
  /\ handlers' = [handlers EXCEPT ![h] =
       [Arrive("channelCreate", g) EXCEPT !.pc = "done",
                                         !.raid = isRaidChannel(name),
                                         !.arrivedRestoring = TRUE]]
  /\ UNCHANGED <<lockedGuilds, monitoring, actionWindows, trackCalls, logs,
                 client, services, now>>

\* execute(): the guild is locked, the channel is deleted at once
ChannelCreateLocked(h, g, name) ==
  /\ handlers[h].kind = "idle"
  /\ GateBlocks(g)
  /\ handlers' = [handlers EXCEPT ![h] =
       [Arrive("channelCreate", g) EXCEPT !.pc = "await_lock_delete",
                                         !.raid = isRaidChannel(name),
                                         !.deleted = "lockdown"]]
  /\ UNCHANGED <<lockedGuilds, monitoring, actionWindows, trackCalls, logs,
                 client, services, now>>

\* execute(): the guild is not locked, the audit log is fetched
ChannelCreateMonitor(h, g, name) ==
  /\ handlers[h].kind = "idle"
  /\ ~GateBlocks(g)
  /\ client.advancedAntiNuke
  /\ handlers' = [handlers EXCEPT ![h] =
       [Arrive("channelCreate", g) EXCEPT !.pc = "await_audit",
                                         !.raid = isRaidChannel(name)]]
  /\ UNCHANGED <<lockedGuilds, monitoring, actionWindows, trackCalls, logs,
                 client, services, now>>

\* execute(): no anti-nuke engine is attached, only the logging runs
ChannelCreatePlain(h, g, name) ==
  /\ handlers[h].kind = "idle"
  /\ ~GateBlocks(g)
  /\ ~client.advancedAntiNuke
  /\ handlers' = [handlers EXCEPT ![h] =
       [Arrive("channelCreate", g) EXCEPT !.pc = "await_enhanced_log",
                                         !.raid = isRaidChannel(name),
                                         !.logged = TRUE]]
  /\ UNCHANGED <<lockedGuilds, monitoring, actionWindows, trackCalls, logs,
                 client, services, now>>

\* a failed delete falls through to the monitoring below the gate
AfterLockDelete_FallsThrough(r, ok) ==
  IF ok THEN [r EXCEPT !.deleteOk = ok, !.pc = "done"]
        ELSE [r EXCEPT !.deleteOk = ok, !.pc = "await_audit"]

\* the handler after the delete of the lockdown gate has settled: the
\* rejection is caught, execute() returns
AfterLockDelete(r, ok) == [r EXCEPT !.deleteOk = ok, !.pc = "done"]

LockDeleteSettles(h, ok) ==
  /\ handlers[h].kind = "channelCreate"
  /\ handlers[h].pc = "await_lock_delete"
  /\ handlers' = [handlers EXCEPT ![h] = AfterLockDelete(@, ok)]
  /\ UNCHANGED <<lockedGuilds, monitoring, actionWindows, trackCalls, logs,
                 client, services, now>>

NoAuditLogs == [kind |-> "null", executor |-> NULL, target |-> NULL, age |-> 0]

\* the audit promise awaited without its catch
ChannelAuditLogs_NoCatch(o) == o

\* fetchAuditLogs(...).catch(() => null)
ChannelAuditLogs(o) == IF o.kind = "reject" THEN NoAuditLogs ELSE o

\* channelCreate takes the first entry as the attribution when it has an
\* executor
ChannelEntryAccepted(o) == o.kind = "entry" /\ o.executor # NULL

\* the raid metadata without the instant trigger
RaidMetadata_NoTrigger == [instantTrigger |-> FALSE, isRaidChannel |-> TRUE]

\* the metadata monitorAction gets for a raid channel and for any other
RaidMetadata == [instantTrigger |-> TRUE, isRaidChannel |-> TRUE]
NormalMetadata == [instantTrigger |-> FALSE, isRaidChannel |-> FALSE]

\* the awaited audit promise rejects: the exception leaves execute()
ChannelAuditThrown(h) ==
  /\ handlers' = [handlers EXCEPT ![h] =
        [@ EXCEPT !.pc = "rejected", !.threw = "audit", !.auditError = TRUE]]
  /\ UNCHANGED <<lockedGuilds, monitoring, actionWindows, trackCalls>>

\* no entry or no executor: straight on to the enhanced logging
ChannelAuditUnattributed(h, failed) ==
  /\ handlers' = [handlers EXCEPT ![h] =
        [@ EXCEPT !.pc = "await_enhanced_log", !.logged = TRUE,
                  !.unattributed = TRUE, !.auditError = failed]]
  /\ UNCHANGED <<lockedGuilds, monitoring, actionWindows, trackCalls>>

\* entry with executor: trackAction, then delete (raid) or monitorAction
\* the event is handed to the tracker twice
TrackedWindows_Twice(g, e) ==
  IF client.eventActionTracker
    THEN [trackAction(g, e) EXCEPT ![<<g, e>>] = Append(@, now)]
    ELSE actionWindows

\* the windows after the attributed event: one trackAction call when the
\* tracker is attached
TrackedWindows(g, e) ==
  IF client.eventActionTracker THEN trackAction(g, e) ELSE actionWindows

ChannelAuditAttributed(h, o, cap) ==
  LET r == handlers[h]
      g == r.guild
      e == o.executor
      windows == TrackedWindows(g, e)
  IN /\ client.eventActionTracker => Tracked(trackCalls) < cap
     /\ actionWindows' = windows
     /\ trackCalls' = IF client.eventActionTracker
                        THEN [trackCalls EXCEPT ![<<g, e>>] = Append(@, now)]
                        ELSE trackCalls
     /\ IF r.raid
          THEN /\ handlers' = [handlers EXCEPT ![h] =
                    [@ EXCEPT !.entry = Attribution(o),
                              !.tracked = client.eventActionTracker,
                              !.deleted = "raid", !.pc = "await_raid_delete"]]
               /\ UNCHANGED <<lockedGuilds, monitoring>>
          ELSE /\ handlers' = [handlers EXCEPT ![h] =
                    [@ EXCEPT !.entry = Attribution(o),
                              !.tracked = client.eventActionTracker,
                              !.monitored = "normal", !.pc = "await_monitor"]]
               /\ lockedGuilds' = LockedAfterMonitor(windows, g, e,
                                     NormalMetadata.instantTrigger)
               /\ monitoring' = MonitoringAfterMonitor(windows, g, e,
                                     NormalMetadata.instantTrigger)

\* the gate is consulted again after the await: in a guild locked meanwhile
\* the event is neither tracked nor handed to the engine
ChannelAuditSettles_RechecksGate(h, o, cap) ==
  /\ handlers[h].kind = "channelCreate"
  /\ handlers[h].pc = "await_audit"
  /\ LET auditLogs == ChannelAuditLogs(o)
     IN IF auditLogs.kind = "reject" THEN ChannelAuditThrown(h)
        ELSE IF ~ChannelEntryAccepted(auditLogs)
          THEN ChannelAuditUnattributed(h, o.kind = "reject")
        ELSE IF GateBlocks(handlers[h].guild)
          THEN /\ handlers' = [handlers EXCEPT ![h] =
                    [@ EXCEPT !.entry = Attribution(auditLogs),
                              !.pc = "await_enhanced_log",
                              !.logged = TRUE]]
               /\ UNCHANGED <<lockedGuilds, monitoring, actionWindows,
                              trackCalls>>
          ELSE ChannelAuditAttributed(h, auditLogs, cap)
  /\ UNCHANGED <<logs, client, services, now>>

ChannelAuditSettles(h, o, cap) ==
  /\ handlers[h].kind = "channelCreate"
  /\ handlers[h].pc = "await_audit"
  /\ LET auditLogs == ChannelAuditLogs(o)
     IN IF auditLogs.kind = "reject" THEN ChannelAuditThrown(h)
        ELSE IF ChannelEntryAccepted(auditLogs)
          THEN ChannelAuditAttributed(h, auditLogs, cap)
          ELSE ChannelAuditUnattributed(h, o.kind = "reject")
  /\ UNCHANGED <<logs, client, services, now>>

\* the rejection of the delete is not caught and leaves execute()
AfterRaidDelete_Throws(r, ok) ==
  IF ok
    THEN [r EXCEPT !.deleteOk = ok, !.monitored = "raid",
                   !.pc = "await_monitor"]
    ELSE [r EXCEPT !.deleteOk = ok, !.pc = "rejected", !.threw = "delete"]

\* the handler after channel.delete(...).catch(() => {}) has settled:
\* monitorAction is called with the instant trigger
AfterRaidDelete(r, ok) ==
  [r EXCEPT !.deleteOk = ok, !.monitored = "raid", !.pc = "await_monitor"]

RaidDeleteSettles(h, ok) ==
  LET r == handlers[h]
      next == AfterRaidDelete(r, ok)
  IN /\ r.kind = "channelCreate"
     /\ r.pc = "await_raid_delete"
     /\ handlers' = [handlers EXCEPT ![h] = next]
     /\ IF next.monitored = "raid"
          THEN /\ lockedGuilds' = LockedAfterMonitor(actionWindows, r.guild,
                                     r.entry.actor, RaidMetadata.instantTrigger)
               /\ monitoring' = MonitoringAfterMonitor(actionWindows, r.guild,
                                     r.entry.actor, RaidMetadata.instantTrigger)
          ELSE UNCHANGED <<lockedGuilds, monitoring>>
     /\ UNCHANGED <<actionWindows, trackCalls, logs, client, services, now>>

\* monitorAction() resolves: the attribution block is left and
\* EnhancedLogging.log is called
MonitorReturns(h) ==
  /\ handlers[h].kind = "channelCreate"
  /\ handlers[h].pc = "await_monitor"
  /\ handlers' = [handlers EXCEPT ![h] =
        [@ EXCEPT !.pc = "await_enhanced_log", !.logged = TRUE,
                  !.entry = NoEntry]]
  /\ UNCHANGED <<lockedGuilds, monitoring, actionWindows, trackCalls, logs, client, services, now>>

\* EnhancedLogging.log() settles: db.getServerConfig is called, or the
\* rejection leaves execute()
EnhancedLogSettles(h, ok) ==
  /\ handlers[h].kind = "channelCreate"
  /\ handlers[h].pc = "await_enhanced_log"
  /\ handlers' = [handlers EXCEPT ![h] =
        IF ok THEN [@ EXCEPT !.pc = "await_config"]
              ELSE [@ EXCEPT !.pc = "rejected", !.threw = "logging"]]
  /\ UNCHANGED <<lockedGuilds, monitoring, actionWindows, trackCalls, logs, client, services, now>>

\* db.getServerConfig() settles: the embed goes to the mod log channel
\* when one is configured and cached
ConfigSettles(h, ok, hasModLog) ==
  /\ handlers[h].kind = "channelCreate"
  /\ handlers[h].pc = "await_config"
  /\ handlers' = [handlers EXCEPT ![h] =
        IF ok THEN [@ EXCEPT !.pc = "done", !.modLog = hasModLog]
              ELSE [@ EXCEPT !.pc = "rejected", !.threw = "config"]]
  /\ UNCHANGED <<lockedGuilds, monitoring, actionWindows, trackCalls, logs, client, services, now>>

\* ------------------------------------------------------- the logs table
Row(type, g, executor) ==
  [event_type |-> type, guild_id |-> g, target |-> EventTarget,
   executor_id |-> executor, timestamp |-> now]

Insert(table, row) == table (+) SetToBag({row})

RECURSIVE CountRows(_, _)
CountRows(table, rows) ==
  IF rows = {} THEN 0
  ELSE LET x == CHOOSE y \in rows : TRUE
       IN CopiesIn(x, table) + CountRows(table, rows \ {x})

\* SELECT COUNT(*) ... WHERE guild_id = ? AND event_type = 'UNBAN'
\*   AND executor_id = ? AND timestamp > ?
RecentUnbans(table, g, executor) ==
  CountRows(table, { x \in BagToSet(table) :
      /\ x.guild_id = g /\ x.event_type = "UNBAN"
      /\ x.executor_id = executor
      /\ x.timestamp > now - UnbanWindowMs })

\* SELECT COUNT(*) ... WHERE guild_id = ? AND event_type = ? AND timestamp > ?
RecentWebhooksUpdates(table, g) ==
  CountRows(table, { x \in BagToSet(table) :
      /\ x.guild_id = g /\ x.event_type = "WEBHOOKS_UPDATE"
      /\ x.timestamp > now - WebhookWindowMs })

\* the unban rows of the user in this guild that have no executor yet
OpenUnbans(table, g) ==
  { x \in BagToSet(table) :
      /\ x.guild_id = g /\ x.event_type = "UNBAN"
      /\ x.target = EventTarget /\ x.executor_id = NULL }

\* UPDATE logs SET executor_id = ? WHERE id = (the most recent open row)
FillExecutor(table, g, executor) ==
  IF OpenUnbans(table, g) = {} THEN table
  ELSE LET row == CHOOSE x \in OpenUnbans(table, g) :
                    \A y \in OpenUnbans(table, g) : y.timestamp <= x.timestamp
       IN Insert(table (-) SetToBag({row}),
                 [row EXCEPT !.executor_id = executor])

\* ------------------------------------------------------- guildBanRemove
\* execute(): the unban is logged, then the audit log is fetched
GuildBanRemove(h, g, cap) ==
  /\ handlers[h].kind = "idle"
  /\ BagCardinality(logs) < cap
  /\ logs' = Insert(logs, Row("UNBAN", g, NULL))
  /\ handlers' = [handlers EXCEPT ![h] =
       [Arrive("guildBanRemove", g) EXCEPT !.pc = "await_audit",
                                          !.logged = TRUE]]
  /\ UNCHANGED <<lockedGuilds, monitoring, actionWindows, trackCalls, client, services, now>>

\* the entry is the attribution if its target is the user and it is younger
\* than the tolerance
TargetEntryAccepted(o) ==
  /\ o.kind = "entry"
  /\ o.target = EventTarget
  /\ o.age < AuditToleranceMs

\* the await, banRemoveLog.target.id or executor.tag throws
TargetAuditThrows(o) ==
  \/ o.kind = "reject"
  \/ o.kind = "entry" /\ o.target = NULL
  \/ TargetEntryAccepted(o) /\ o.executor = NULL

\* catch (auditError): logged at debug level, execute() returns
AuditCatch(r) ==
  [r EXCEPT !.pc = "done", !.unattributed = TRUE, !.auditError = TRUE]

BanAuditSettles(h, o) ==
  /\ handlers[h].kind = "guildBanRemove"
  /\ handlers[h].pc = "await_audit"
  /\ handlers' = [handlers EXCEPT ![h] =
        IF TargetAuditThrows(o) THEN AuditCatch(@)
        ELSE IF TargetEntryAccepted(o)
          THEN [@ EXCEPT !.entry = Attribution(o), !.pc = "await_recent"]
          ELSE [@ EXCEPT !.pc = "done", !.unattributed = TRUE]]
  /\ UNCHANGED <<lockedGuilds, monitoring, actionWindows, trackCalls, logs, client, services, now>>

\* the SELECT of the most recent open row settles: the row gets the
\* executor and the unbans of the executor are counted; an error of the
\* SELECT ends in the catch around the lookup
BanRecentSettles(h, ok) ==
  LET r == handlers[h]
      table == FillExecutor(logs, r.guild, r.entry.actor)
  IN /\ r.kind = "guildBanRemove"
     /\ r.pc = "await_recent"
     /\ IF ok
          THEN /\ logs' = table
               /\ handlers' = [handlers EXCEPT ![h] =
                     [@ EXCEPT !.pc = "await_count",
                               !.recent = RecentUnbans(table, r.guild,
                                                       r.entry.actor)]]
          ELSE /\ logs' = logs
               /\ handlers' = [handlers EXCEPT ![h] = [@ EXCEPT !.pc = "done"]]
     /\ UNCHANGED <<lockedGuilds, monitoring, actionWindows, trackCalls, client, services, now>>

\* more than 5 unbans by the executor in a minute and the engine enabled
MassUnban(r, enabled) == r.recent > UnbanThreshold /\ enabled

\* the count settles: handleMassAction is called for a mass unban
BanCountSettles(h, enabled) ==
  LET r == handlers[h]
  IN /\ r.kind = "guildBanRemove"
     /\ r.pc = "await_count"
     /\ handlers' = [handlers EXCEPT ![h] =
           [@ EXCEPT !.pc = "done", !.escalated = MassUnban(r, enabled)]]
     /\ lockedGuilds' = IF MassUnban(r, enabled)
                          THEN LockedAfterMassAction(r.guild)
                          ELSE lockedGuilds
     /\ UNCHANGED <<monitoring, actionWindows, trackCalls, logs, client, services, now>>

\* ------------------------------------------------------- webhooksUpdate
\* execute(): channel.fetchWebhooks() is called
WebhooksUpdate(h, g) ==
  /\ handlers[h].kind = "idle"
  /\ handlers' = [handlers EXCEPT ![h] =
       [Arrive("webhooksUpdate", g) EXCEPT !.pc = "await_webhooks"]]
  /\ UNCHANGED <<lockedGuilds, monitoring, actionWindows, trackCalls, logs, client, services, now>>

FetchResults == {"ok", "missing_permissions", "error"}

\* fetchWebhooks() settles: code 50013 returns, another error goes to the
\* outer catch, otherwise the update is logged and the audit log fetched
WebhooksFetched(h, res, cap) ==
  LET r == handlers[h]
  IN /\ r.kind = "webhooksUpdate"
     /\ r.pc = "await_webhooks"
     /\ IF res = "ok"
          THEN /\ BagCardinality(logs) < cap
               /\ logs' = Insert(logs, Row("WEBHOOKS_UPDATE", r.guild, NULL))
               /\ handlers' = [handlers EXCEPT ![h] =
                     [@ EXCEPT !.pc = "await_audit", !.logged = TRUE]]
          ELSE /\ logs' = logs
               /\ handlers' = [handlers EXCEPT ![h] = [@ EXCEPT !.pc = "done"]]
     /\ UNCHANGED <<lockedGuilds, monitoring, actionWindows, trackCalls, client, services, now>>

\* webhooksUpdate takes the entry as the attribution if it is younger than
\* the tolerance
FreshEntryAccepted(o) == o.kind = "entry" /\ o.age < AuditToleranceMs

\* the await, executor.tag or targetWebhook.name throws
FreshAuditThrows(o) ==
  \/ o.kind = "reject"
  \/ FreshEntryAccepted(o) /\ (o.executor = NULL \/ o.target = NULL)

WebhookAuditSettles(h, o) ==
  LET r == handlers[h]
  IN /\ r.kind = "webhooksUpdate"
     /\ r.pc = "await_audit"
     /\ handlers' = [handlers EXCEPT ![h] =
           IF FreshAuditThrows(o) THEN AuditCatch(@)
           ELSE IF FreshEntryAccepted(o)
             THEN [@ EXCEPT !.entry = Attribution(o), !.pc = "await_count",
                            !.recent = RecentWebhooksUpdates(logs, r.guild)]
             ELSE [@ EXCEPT !.pc = "done", !.unattributed = TRUE]]
     /\ UNCHANGED <<lockedGuilds, monitoring, actionWindows, trackCalls, logs, client, services, now>>

\* the count settles: more than 10 updates in a minute are only warned about
WebhookCountSettles(h) ==
  /\ handlers[h].kind = "webhooksUpdate"
  /\ handlers[h].pc = "await_count"
  /\ handlers' = [handlers EXCEPT ![h] = [@ EXCEPT !.pc = "done"]]
  /\ UNCHANGED <<lockedGuilds, monitoring, actionWindows, trackCalls, logs, client, services, now>>

\* ---------------------------------------------------------- emojiUpdate
\* execute(): a rename is logged and the audit log is fetched
EmojiUpdate(h, g, renamed, cap) ==
  /\ handlers[h].kind = "idle"
  /\ IF renamed
       THEN /\ BagCardinality(logs) < cap
            /\ logs' = Insert(logs, Row("EMOJI_UPDATE", g, NULL))
            /\ handlers' = [handlers EXCEPT ![h] =
                  [Arrive("emojiUpdate", g) EXCEPT !.pc = "await_audit",
                                                  !.logged = TRUE]]
       ELSE /\ logs' = logs
            /\ handlers' = [handlers EXCEPT ![h] =
                  [Arrive("emojiUpdate", g) EXCEPT !.pc = "done"]]
  /\ UNCHANGED <<lockedGuilds, monitoring, actionWindows, trackCalls, client, services, now>>

EmojiAuditSettles(h, o) ==
  /\ handlers[h].kind = "emojiUpdate"
  /\ handlers[h].pc = "await_audit"
  /\ handlers' = [handlers EXCEPT ![h] =
        IF TargetAuditThrows(o) THEN AuditCatch(@)
        ELSE IF TargetEntryAccepted(o)
          THEN [@ EXCEPT !.entry = Attribution(o), !.pc = "done"]
          ELSE [@ EXCEPT !.pc = "done", !.unattributed = TRUE]]
  /\ UNCHANGED <<lockedGuilds, monitoring, actionWindows, trackCalls, logs, client, services, now>>

\* execute() has returned or rejected: index.js logs a rejection
Return(h) ==
  /\ handlers[h].pc \in {"done", "rejected"}
  /\ handlers' = [handlers EXCEPT ![h] = Idle]
  /\ UNCHANGED <<lockedGuilds, monitoring, actionWindows, trackCalls, logs, client, services, now>>

\* ----------------------------------------------------------- WebhookHub
\* registerWebhook(guildId, webhookUrl, events, name): the URL is validated,
\* the events are stored as JSON text
RegisterWebhook(g, url, events) ==
  /\ Len(hub.rows) < MaxWebhooks
  /\ hub' = IF UrlCheck(url) = "ok"
       THEN [hub EXCEPT !.lastRegister = "inserted",
                        !.rows = Append(@,
                           [id |-> Len(@) + 1, guild_id |-> g,
                            webhook_url |-> url, events |-> Stringify(events),
                            enabled |-> TRUE, trigger_count |-> 0])]
       ELSE [hub EXCEPT !.lastRegister = "rejected"]
  /\ UNCHANGED notHub

\* toggleWebhook(id)
ToggleWebhook(id) ==
  /\ id \in 1..Len(hub.rows)
  /\ hub' = [hub EXCEPT !.rows[id].enabled = ~@]
  /\ UNCHANGED notHub

\* triggerEvent(guildId, eventType, eventData) is called
TriggerEvent(g, eventType) ==
  /\ hub.call.pc = "idle"
  /\ hub.calls < MaxHubCalls
  /\ hub' = [hub EXCEPT !.calls = @ + 1,
                        !.call = [HubIdle EXCEPT !.pc = "await_get",
                                                 !.guild = g,
                                                 !.eventType = eventType]]
  /\ UNCHANGED notHub

\* getWebhooks(guildId) settles: the rows of the guild, or the rejection
\* that the outer catch logs
GetWebhooksSettles(ok) ==
  /\ hub.call.pc = "await_get"
  /\ hub' = IF ok
       THEN [hub EXCEPT !.call.pc = "loop", !.call.i = 1,
                        !.call.webhooks =
                           SelectSeq(hub.rows,
                              LAMBDA w : w.guild_id = hub.call.guild)]
       ELSE [hub EXCEPT !.call.pc = "done"]
  /\ UNCHANGED notHub

\* the call after the synchronous part of one turn of the for loop
AfterVisit(c) ==
  IF c.i > Len(c.webhooks) THEN [c EXCEPT !.pc = "done"]
  ELSE LET w == c.webhooks[c.i]
           includes == EventsInclude(Parse(w.events), c.eventType)
       IN IF ~w.enabled THEN [c EXCEPT !.i = @ + 1]
          ELSE IF includes = "throws"
            THEN [c EXCEPT !.pc = "done", !.aborted = TRUE]
          ELSE IF includes = "no" THEN [c EXCEPT !.i = @ + 1]
          ELSE IF UrlCheck(w.webhook_url) # "ok" THEN [c EXCEPT !.i = @ + 1]
          ELSE [c EXCEPT !.pc = "await_post",
                         !.attempted = @ \cup {w.id}]

VisitWebhook ==
  /\ hub.call.pc = "loop"
  /\ hub' = [hub EXCEPT !.call = AfterVisit(@)]
  /\ UNCHANGED notHub

\* axios.post settles: updateTriggerCount is called, or the inner catch
\* logs the failure and the loop goes on
PostSettles(ok) ==
  /\ hub.call.pc = "await_post"
  /\ hub' = IF ok
       THEN [hub EXCEPT !.call.pc = "await_count",
                        !.call.delivered =
                           @ \cup {hub.call.webhooks[hub.call.i].id}]
       ELSE [hub EXCEPT !.call.pc = "loop", !.call.i = @ + 1]
  /\ UNCHANGED notHub

\* updateTriggerCount(webhook.id) settles
TriggerCountSettles(ok) ==
  /\ hub.call.pc = "await_count"
  /\ LET id == hub.call.webhooks[hub.call.i].id
     IN hub' = [hub EXCEPT !.call.pc = "loop", !.call.i = @ + 1,
                           !.rows[id].trigger_count =
                              IF ok THEN @ + 1 ELSE @]
  /\ UNCHANGED notHub

\* triggerEvent has resolved
HubReturn ==
  /\ hub.call.pc = "done"
  /\ hub' = [hub EXCEPT !.call = HubIdle]
  /\ UNCHANGED notHub

\* -------------------------------------------------- AdvancedRateLimiter
\* addWhitelist(identifier, type, duration) on the in-memory store
AddWhitelist(identifier, durationS) ==
  /\ limiter' = [limiter EXCEPT !.whitelist[identifier] =
                    [whitelisted |-> TRUE, expires |-> now + durationS * 1000]]
  /\ UNCHANGED notLimiter

\* checkMemoryLimit(key, limit) for the limit of heavy commands; cleanup is
\* the one-in-a-hundred draw of Math.random()
checkMemoryLimit(identifier, cleanup) ==
  LET bucket == PushAndFilter(limiter.buckets[identifier], HeavyDurationS)
      stored == [limiter.buckets EXCEPT ![identifier] = bucket]
      count == Len(bucket.stamps)
  IN [buckets |-> IF cleanup THEN cleanupMemoryStore(stored) ELSE stored,
      allowed |-> count <= HeavyPoints,
      count |-> count]

\* checkLimit(key, "command_heavy")
CheckLimit(identifier, cleanup) ==
  LET result == checkMemoryLimit(identifier, cleanup)
  IN /\ Len(limiter.buckets[identifier].stamps) < MaxRequests
     /\ limiter' = [limiter EXCEPT
           !.buckets = result.buckets,
           !.last = [via |-> "checkLimit", identifier |-> identifier,
                     allowed |-> result.allowed, count |-> result.count,
                     status |-> 0,
                     whitelisted |->
                        isWhitelisted(limiter.whitelist, identifier)]]
     /\ UNCHANGED notLimiter

\* the middleware of apiMiddleware("command_heavy") for a request of
\* the identifier: 429 when the limit denies, next() otherwise
ApiRequest(identifier, cleanup) ==
  LET result == checkMemoryLimit(identifier, cleanup)
  IN /\ Len(limiter.buckets[identifier].stamps) < MaxRequests
     /\ limiter' = [limiter EXCEPT
           !.buckets = result.buckets,
           !.last = [via |-> "apiMiddleware", identifier |-> identifier,
                     allowed |-> result.allowed, count |-> result.count,
                     status |-> IF result.allowed THEN 200 ELSE 429,
                     whitelisted |->
                        isWhitelisted(limiter.whitelist, identifier)]]
     /\ UNCHANGED notLimiter

\* -------------------------------------------------------- ContentFilter
\* isOffensive(text) on the shared instance
IsOffensive(text) ==
  LET result == isOffensive(text, filter.lastIndex)
  IN /\ filter.calls < MaxFilterCalls
     /\ filter' = [lastIndex |-> result.lastIndex,
                   calls |-> filter.calls + 1,
                   last |-> [via |-> "isOffensive", text |-> text,
                             returned |-> result.returned,
                             sanitizedName |-> <<>>]]
     /\ UNCHANGED notFilter

\* checkGuild(guild): isOffensive(guild.name), then sanitize(guild.name),
\* whose replace calls leave every lastIndex at 0
CheckGuild(name) ==
  LET result == isOffensive(name, filter.lastIndex)
  IN /\ filter.calls < MaxFilterCalls
     /\ filter' = [lastIndex |->
                      IF name = <<>> THEN result.lastIndex
                      ELSE [t \in 1..Len(offensiveTerms) |-> 0],
                   calls |-> filter.calls + 1,
                   last |-> [via |-> "checkGuild", text |-> name,
                             returned |-> result.returned,
                             sanitizedName |-> sanitize(name, 1)]]
     /\ UNCHANGED notFilter

\* ------------------------------------------------ BlockchainThreatIntel
\* the constructor: initialize() loads the saved chain or creates and saves
\* the genesis block
Initialize ==
  /\ ~chain.initialized
  /\ chain' = IF chain.file # <<>>
       THEN [chain EXCEPT !.initialized = TRUE, !.blocks = chain.file]
       ELSE [chain EXCEPT !.initialized = TRUE,
                          !.blocks = <<createGenesisBlock(now)>>,
                          !.file = <<createGenesisBlock(now)>>]
  /\ UNCHANGED notChain

\* the process stops: the blocks on disk stay, the pending pool is lost
Restart ==
  /\ chain.initialized
  /\ chain' = [chain EXCEPT !.initialized = FALSE, !.blocks = <<>>,
                            !.pendingTransactions = <<>>, !.valid = "none"]
  /\ UNCHANGED notChain

\* reportThreat(guildId, reporterId, threatData): the report joins the
\* pool, a pool of five is mined at once
ReportThreat(reporterId) ==
  LET pooled == [chain EXCEPT !.pendingTransactions =
                    Append(@, [type |-> "threat_report", timestamp |-> now,
                               who |-> reporterId])]
  IN /\ chain.initialized
     /\ Len(chain.blocks) < MaxBlocks
     /\ chain' = IF Len(pooled.pendingTransactions) >= AutoMineLength
                   THEN mineBlock(pooled, reporterId) ELSE pooled
     /\ UNCHANGED notChain

\* the 30 s interval finds pending transactions and mines them
AutoMine ==
  /\ chain.initialized
  /\ Len(chain.pendingTransactions) > 0
  /\ chain' = mineBlock(chain, "system")
  /\ UNCHANGED notChain

\* isValidChain() is called
IsValidChain ==
  /\ chain.initialized
  /\ chain' = [chain EXCEPT !.valid =
                  IF isValidChain(chain.blocks, now) THEN "true" ELSE "false"]
  /\ UNCHANGED notChain

\* ------------------------------------------------- ClusterRollingRestart
\* restart(manager, {clusterOrder}) is called
RollingRestart(size, clusterOrder) ==
  /\ rolling.isRestarting \/ rolling.pc = "idle"
  /\ IF rolling.isRestarting THEN rolling.refused < MaxRefused
                              ELSE rolling.operations < MaxOperations
  /\ rolling' =
       IF rolling.isRestarting THEN Refuses(rolling)
       ELSE Begins(rolling, "restart", size,
                   IF clusterOrder = "reverse"
                     THEN Reverse(ClusterValues(size))
                     ELSE ClusterValues(size),
                   <<>>)
  /\ UNCHANGED notRolling

\* batchRestart(manager, {batchSize}) is called
BatchRestart(size, batchSize) ==
  /\ rolling.isRestarting \/ rolling.pc = "idle"
  /\ IF rolling.isRestarting THEN rolling.refused < MaxRefused
                              ELSE rolling.operations < MaxOperations
  /\ rolling' =
       IF rolling.isRestarting THEN Refuses(rolling)
       ELSE Begins(rolling, "batch", size, <<>>,
                   Batches(ClusterValues(size), batchSize))
  /\ UNCHANGED notRolling

\* the loop is at a cluster (or batch): cluster.kill(), then the 5 s sleep
\* is awaited; a kill that throws fails the cluster, and in batchRestart the
\* whole operation; after the last cluster the operation ends
Kill(killOk) ==
  /\ rolling.pc = "kill"
  /\ rolling' =
       IF rolling.kind = "restart"
         THEN IF rolling.i > Len(rolling.clusters) THEN Finally(rolling)
              ELSE IF killOk
                THEN [rolling EXCEPT
                        !.killed = Append(@, rolling.clusters[rolling.i]),
                        !.pc = "await_sleep"]
                ELSE NextCluster([rolling EXCEPT !.failed = TRUE])
         ELSE IF rolling.i > Len(rolling.batches) THEN Finally(rolling)
              ELSE IF killOk
                THEN [rolling EXCEPT
                        !.killed = @ \o rolling.batches[rolling.i],
                        !.pc = "await_sleep"]
                ELSE Finally([rolling EXCEPT !.failed = TRUE])
  /\ UNCHANGED notRolling

\* this.sleep(5000) is over: manager.spawn is awaited
SleepSettles ==
  /\ rolling.pc = "await_sleep"
  /\ rolling' = [rolling EXCEPT !.pc = "await_spawn"]
  /\ UNCHANGED notRolling

\* manager.spawn settles (in batchRestart: all of the batch, each caught)
SpawnSettles(ok) ==
  /\ rolling.pc = "await_spawn"
  /\ rolling' =
       IF rolling.kind = "restart"
         THEN IF ~ok THEN NextCluster([rolling EXCEPT !.failed = TRUE])
              ELSE LET done == [rolling EXCEPT
                                  !.succeeded =
                                     @ \cup {rolling.clusters[rolling.i]}]
                   IN IF WaitsBeforeNext(rolling)
                        THEN [done EXCEPT !.pc = "await_delay"]
                        ELSE NextCluster(done)
         ELSE LET done == [rolling EXCEPT !.failed = @ \/ ~ok]
              IN IF WaitsBeforeNext(rolling)
                   THEN [done EXCEPT !.pc = "await_delay"]
                   ELSE NextCluster(done)
  /\ UNCHANGED notRolling

\* this.sleep(delay) is over
DelaySettles ==
  /\ rolling.pc = "await_delay"
  /\ rolling' =
       NextCluster([rolling EXCEPT
                      !.delayed = @ \cup {IF rolling.kind = "restart"
                                            THEN rolling.clusters[rolling.i]
                                            ELSE rolling.i}])
  /\ UNCHANGED notRolling

\* ---------------------------------------- AdvancedRateLimiter, Redis backend
\* checkLimit(key, "command_heavy") with useRedis: checkRedisLimit reads the
\* clock and awaits zAdd
CheckRedisLimit(r) ==
  /\ redis.calls[r].pc = "idle"
  /\ redis.answered
       + Cardinality({q \in RedisRuns : redis.calls[q].pc # "idle"})
       < MaxRedisCalls
  /\ redis' = [redis EXCEPT !.calls[r] = [pc |-> "zAdd", now |-> now,
                                          count |-> 0]]
  /\ UNCHANGED notRedis

\* client.zAdd(key, {score: now, value: `${now}`}) settles
ZAddSettles(r, ok) ==
  /\ redis.calls[r].pc = "zAdd"
  /\ redis' = IF ok
       THEN [redis EXCEPT
               !.zset = zAdd(@, redis.calls[r].now, redis.calls[r].now),
               !.calls[r].pc = "zRemRangeByScore"]
       ELSE FailOpen(redis, r)
  /\ UNCHANGED notRedis

\* client.zRemRangeByScore(key, 0, windowStart) settles
ZRemSettles(r, ok) ==
  /\ redis.calls[r].pc = "zRemRangeByScore"
  /\ redis' = IF ok
       THEN [redis EXCEPT
               !.zset = zRemRangeByScore(@, 0, redis.calls[r].now
                                                 - HeavyDurationS * 1000),
               !.calls[r].pc = "zCard"]
       ELSE FailOpen(redis, r)
  /\ UNCHANGED notRedis

\* client.zCard(key) settles
ZCardSettles(r, ok) ==
  /\ redis.calls[r].pc = "zCard"
  /\ redis' = IF ok
       THEN [redis EXCEPT !.calls[r].count = zCard(redis.zset),
                          !.calls[r].pc = "expire"]
       ELSE FailOpen(redis, r)
  /\ UNCHANGED notRedis

\* client.expire(key, duration) settles and the result is returned
ExpireSettles(r, ok) ==
  /\ redis.calls[r].pc = "expire"
  /\ redis' = IF ok
       THEN [redis EXCEPT
               !.allowedAt = IF redis.calls[r].count <= HeavyPoints
                               THEN Append(@, redis.calls[r].now) ELSE @,
               !.answered = @ + 1,
               !.calls[r] = NoRedisCall]
       ELSE FailOpen(redis, r)
  /\ UNCHANGED notRedis

\* --------------------------------------------- ban, kick, timeout commands
\* execute(interaction) up to its first await
Execute(command, invoker, target, invokerPosition, targetPosition, inGuild, manageable, durationOk) ==
  /\ moderation.pc = "idle"
  /\ moderation.calls < MaxCommands
  /\ LET c == [moderation EXCEPT !.command = command, !.invoker = invoker,
                                !.target = target,
                                !.invokerPosition = invokerPosition,
                                !.targetPosition = targetPosition,
                                !.inGuild = inGuild,
                                !.manageable = manageable]
     IN moderation' =
          IF target = invoker THEN Replies(c, "cannotTargetSelf")
          ELSE IF command = "ban" /\ target = BotId
            THEN Replies(c, "cannotTargetBot")
          ELSE IF target = OwnerId THEN Replies(c, "cannotTargetOwner")
          ELSE IF command = "timeout"
            THEN IF durationOk THEN CallsModeration(c)
                               ELSE Replies(c, "invalidInput")
          ELSE [c EXCEPT !.pc = "await_member"]
  /\ UNCHANGED notModeration

\* guild.members.fetch(user.id).catch(() => null) settles
MemberFetched(ok) ==
  /\ moderation.pc = "await_member"
  /\ LET member == ok /\ moderation.inGuild
     IN moderation' =
          IF moderation.command = "kick"
            THEN IF member THEN AfterMemberChecks(moderation)
                           ELSE Replies(moderation, "userNotFound")
            ELSE IF member THEN [moderation EXCEPT !.pc = "await_bot"]
                           ELSE CallsModeration(moderation)
  /\ UNCHANGED notModeration

\* ban: guild.members.fetch(client.user.id) settles
BotMemberFetched(ok) ==
  /\ moderation.pc = "await_bot"
  /\ moderation' = IF ok THEN AfterMemberChecks(moderation)
                         ELSE Replies(moderation, "throws")
  /\ UNCHANGED notModeration

\* Moderation.ban / kick / mute settles and the result is replied
ModerationSettles(success) ==
  /\ moderation.pc = "await_moderation"
  /\ moderation' = Replies(moderation,
                           IF success THEN "embed" ELSE "commandFailed")
  /\ UNCHANGED notModeration

\* execute() has returned
CommandReturn ==
  /\ moderation.pc = "done"
  /\ moderation' = [NoCommand EXCEPT !.calls = moderation.calls + 1]
  /\ UNCHANGED notModeration

\* ------------------------------------- ShardHealthMonitor, ClusterHealthMonitor
\* start(manager): the health of the shard is tracked from now on
Start(kind) ==
  /\ monitor.kind = "none"
  /\ monitor' = [monitor EXCEPT
                   !.kind = kind,
                   !.objects = <<[failedChecks |-> 0, status |-> "healthy"]>>,
                   !.current = 1]
  /\ UNCHANGED notMonitor

\* the interval fires and checkShard reads the health object and awaits eval
CheckShard(r) ==
  /\ monitor.kind # "none"
  /\ monitor.runs[r].pc = "idle"
  /\ monitor.checks < MaxChecks
  /\ monitor' = [monitor EXCEPT
                   !.runs[r] = [pc |-> "await_eval", health |-> monitor.current],
                   !.checks = @ + 1]
  /\ UNCHANGED notMonitor

\* eval settles: the health object is updated and put into the map, and the
\* restart begins when it is needed (killOk: cluster.kill() does not throw)
EvalSettles(r, metrics, killOk) ==
  /\ monitor.runs[r].pc = "await_eval"
  /\ LET o == monitor.runs[r].health
         health == Checked(monitor.kind, monitor.objects[o], metrics)
         failed == health.failedChecks # 0
         streak == IF failed THEN monitor.streak + 1 ELSE 0
     IN monitor' =
          IF ~needsRestart(health)
            THEN [monitor EXCEPT !.objects[o] = health, !.current = o,
                                 !.streak = streak, !.runs[r] = NoRun]
            ELSE IF monitor.kind = "cluster" /\ ~killOk
              THEN [monitor EXCEPT
                      !.objects[o] = [failedChecks |-> 0, status |-> "failed"],
                      !.current = o, !.streak = 0,
                      !.restarts = @ + 1, !.runs[r] = NoRun]
              ELSE [monitor EXCEPT !.objects[o] = health, !.current = o,
                                   !.streak = streak, !.restarts = @ + 1,
                                   !.runs[r].pc = "await_respawn"]
  /\ UNCHANGED notMonitor

\* shard.respawn settles, or the 5 s wait after cluster.kill() is over: a
\* new health object replaces the one in the map, or the old one is marked
\* failed when the respawn threw
RespawnSettles(r, ok) ==
  /\ monitor.runs[r].pc = "await_respawn"
  /\ monitor.kind = "shard" \/ ok
  /\ monitor' =
       IF ok
         THEN [monitor EXCEPT
                 !.objects = Append(@, [failedChecks |-> 0,
                                        status |-> "restarting"]),
                 !.current = Len(monitor.objects) + 1,
                 !.streak = 0, !.runs[r] = NoRun]
         ELSE [monitor EXCEPT
                 !.objects[monitor.runs[r].health] =
                    [failedChecks |-> 0, status |-> "failed"],
                 !.current = monitor.runs[r].health,
                 !.streak = 0, !.runs[r] = NoRun]
  /\ UNCHANGED notMonitor

\* ------------------------------------------------------ AutomaticBackup
\* the bot writes to the database
DbWrite ==
  /\ backup.db < MaxDbVersion
  /\ backup' = [backup EXCEPT !.db = @ + 1]
  /\ UNCHANGED notBackup

\* createBackup(type) of a caller that is not restoreBackup: while an
\* operation is running it returns null at once (skipped keeps the types of
\* these calls), else it goes on to copy the database
createBackup(b, type) ==
  IF b.running THEN [b EXCEPT !.skipped = @ \cup {type}]
               ELSE StartCreate(b, type, FALSE)

\* createBackup(type) is called by hand
CreateBackup(type) ==
  /\ backup.running \/ backup.create.pc = "idle"
  /\ backup' = createBackup(backup, type)
  /\ UNCHANGED notBackup

\* the clock reaches an instant at which these schedules are due
ScheduledTick(types) ==
  /\ backup.due = {}
  /\ backup.ticks < MaxScheduledTicks
  /\ backup' = [backup EXCEPT !.due = types, !.ticks = @ + 1]
  /\ UNCHANGED notBackup

\* the callback of a due schedule runs: it awaits createBackup(type), then
\* cleanupOldBackups(type), which deletes nothing while there are no more
\* backups of the type than the retention keeps (24, 7 and 4)
CronFires(type) ==
  /\ type \in backup.due
  /\ backup.running \/ backup.create.pc = "idle"
  /\ backup' = [createBackup(backup, type) EXCEPT !.due = @ \ {type}]
  /\ UNCHANGED notBackup

\* fs.copyFile(dbPath, backupPath) settles
CreateCopySettles(ok) ==
  /\ backup.create.pc = "await_copy"
  /\ backup' = IF ok
       THEN [backup EXCEPT
               !.files = @ \cup {[type |-> backup.create.type,
                                  content |-> backup.db, meta |-> FALSE]},
               !.create.content = backup.db,
               !.create.pc = "await_stat"]
       ELSE CreateFails(backup)
  /\ UNCHANGED notBackup

\* fs.stat(backupPath) settles
CreateStatSettles(ok) ==
  /\ backup.create.pc = "await_stat"
  /\ backup' = IF ok THEN [backup EXCEPT !.create.pc = "await_meta"]
                     ELSE CreateFails(backup)
  /\ UNCHANGED notBackup

\* fs.writeFile(metadataPath, ...) settles: the path is returned
CreateMetaSettles(ok) ==
  /\ backup.create.pc = "await_meta"
  /\ backup' = IF ok
       THEN LET file == [type |-> backup.create.type,
                         content |-> backup.create.content]
            IN [backup EXCEPT
                  !.files = (@ \ {[type |-> file.type,
                                    content |-> file.content,
                                    meta |-> FALSE]})
                            \cup {[type |-> file.type,
                                   content |-> file.content,
                                   meta |-> TRUE]},
                  !.running = FALSE,
                  !.create.returned = TRUE,
                  !.create.pc = "done"]
       ELSE CreateFails(backup)
  /\ UNCHANGED notBackup

\* createBackup has resolved; the restore that awaited it goes on to copy
\* the backup over the database
CreateReturn ==
  /\ backup.create.pc = "done"
  /\ backup' = IF backup.create.nested
       THEN [backup EXCEPT !.create = NoCreate,
                           !.restore.pc = "await_copy"]
       ELSE [backup EXCEPT !.create = NoCreate]
  /\ UNCHANGED notBackup

\* restoreBackup(backupPath) is called for the backup with this content:
\* it throws while an operation is running
RestoreBackup(content) ==
  /\ backup.restore.pc = "idle"
  /\ backup' = IF backup.running
       THEN [backup EXCEPT !.restore = [NoRestore EXCEPT
                                          !.pc = "done",
                                          !.threw = "in progress"]]
       ELSE [backup EXCEPT !.running = TRUE,
                           !.restore = [NoRestore EXCEPT
                                          !.pc = "await_access",
                                          !.source = content]]
  /\ UNCHANGED notBackup

\* fs.access(backupPath) settles: createBackup("pre-restore") is called
RestoreAccessSettles ==
  /\ backup.restore.pc = "await_access"
  /\ backup.create.pc = "idle"
  /\ backup' =
       IF \E f \in backup.files : f.content = backup.restore.source
         THEN StartCreate([backup EXCEPT !.restore.pc = "await_pre"],
                          "pre-restore", TRUE)
         ELSE [backup EXCEPT !.running = FALSE, !.restore.pc = "done",
                             !.restore.threw = "access"]
  /\ UNCHANGED notBackup

\* fs.copyFile(backupPath, dbPath) settles, then the finally
RestoreCopySettles(ok) ==
  /\ backup.restore.pc = "await_copy"
  /\ backup' = IF ok
       THEN [backup EXCEPT !.restore.before = backup.db,
                           !.db = backup.restore.source,
                           !.running = FALSE,
                           !.restore.pc = "done"]
       ELSE [backup EXCEPT !.running = FALSE, !.restore.pc = "done",
                           !.restore.threw = "copy"]
  /\ UNCHANGED notBackup

\* restoreBackup has resolved or rejected
RestoreReturn ==
  /\ backup.restore.pc = "done"
  /\ backup' = [backup EXCEPT !.restore = NoRestore]
  /\ UNCHANGED notBackup

\* ----------------------------------------------------------- environment
\* the explicit external unlock of a guild
Unlock(g) ==
  /\ g \in lockedGuilds
  /\ lockedGuilds' = lockedGuilds \ {g}
  /\ monitoring' = monitoring \ {g}
  /\ UNCHANGED <<handlers, actionWindows, trackCalls, logs, client, services, now>>

Advance(maxTicks) ==
  /\ now + TickMs <= maxTicks * TickMs
  /\ now' = now + TickMs
  /\ UNCHANGED <<handlers, lockedGuilds, monitoring, actionWindows, trackCalls, logs, client, services>>

Tick == Advance(MaxTicks)

\* the channel creations of handler h in the guilds gs, attributed to the actors as
Creates(h, gs, as, maxTracked) ==
  \/ \E g \in gs, name \in ChannelNames :
        \/ ChannelCreateRestoring(h, g, name)
        \/ ChannelCreateLocked(h, g, name)
        \/ ChannelCreateMonitor(h, g, name)
        \/ ChannelCreatePlain(h, g, name)
  \/ \E ok \in BOOLEAN :
        \/ LockDeleteSettles(h, ok)
        \/ RaidDeleteSettles(h, ok)
        \/ EnhancedLogSettles(h, ok)
        \/ \E hasModLog \in BOOLEAN : ConfigSettles(h, ok, hasModLog)
  \/ \E o \in AuditOutcomes(as) : ChannelAuditSettles(h, o, maxTracked)
  \/ MonitorReturns(h)

\* the webhook and emoji updates of handler h
Updates(h, gs, as, maxRows) ==
  \/ \E g \in gs, renamed \in BOOLEAN : EmojiUpdate(h, g, renamed, maxRows)
  \/ \E o \in AuditOutcomes(as) :
        \/ WebhookAuditSettles(h, o)
        \/ EmojiAuditSettles(h, o)
  \/ \E g \in gs : WebhooksUpdate(h, g)
  \/ \E res \in FetchResults : WebhooksFetched(h, res, maxRows)
  \/ WebhookCountSettles(h)

\* the ban removals of handler h
Unbans(h, gs, as, maxRows) ==
  \/ \E g \in gs : GuildBanRemove(h, g, maxRows)
  \/ \E o \in AuditOutcomes(as) : BanAuditSettles(h, o)
  \/ \E ok \in BOOLEAN : BanRecentSettles(h, ok) \/ BanCountSettles(h, ok)

\* events of every kind in one guild, one execute() call at a time
Next ==
  \/ Creates("h1", {"g1"}, {"a1"}, MaxTracked)
  \/ Updates("h1", {"g1"}, {"a1"}, MaxLogRows)
  \/ Unbans("h1", {"g1"}, {"a1"}, MaxLogRows)
  \/ Return("h1")
  \/ Unlock("g1")
  \/ Tick

Spec == Init /\ [][Next]_vars

\* channel creations in both guilds by both actors
NextCreate ==
  \/ Creates("h1", Guilds, Actors, MaxTracked)
  \/ Return("h1")
  \/ \E g \in Guilds : Unlock(g)
  \/ Tick

SpecCreate == Init /\ [][NextCreate]_vars

\* a burst of ban removals in one guild by both actors
NextBurst ==
  \/ Unbans("h1", {"g1"}, Actors, MaxBurstRows)
  \/ Return("h1")
  \/ Unlock("g1")

SpecBurst == Init /\ [][NextBurst]_vars

\* two execute() calls of channelCreate interleaving at their awaits
NextRace ==
  \/ \E h \in Handlers :
        \/ Creates(h, {"g1"}, Actors, MaxRaceTracked)
        \/ Return(h)
  \/ Unlock("g1")
  \/ Tick

SpecRace == Init /\ [][NextRace]_vars

\* channel creations of one guild while tracked actions age out of the
\* window
NextTracker ==
  \/ Creates("h1", {"g1"}, Actors, MaxTracked)
  \/ Return("h1")
  \/ Unlock("g1")
  \/ Advance(MaxTrackerTicks)

SpecTracker == Init /\ [][NextTracker]_vars

\* two execute() calls of channelCreate for two actors within one tick
NextTie ==
  \/ \E h \in Handlers :
        \/ Creates(h, {"g1"}, Actors, MaxTieTracked)
        \/ Return(h)
  \/ Unlock("g1")

SpecTie == Init /\ [][NextTie]_vars

\* webhook registrations and notification deliveries
NextHub ==
  \/ \E g \in Guilds, url \in WebhookUrls, events \in EventLists :
        RegisterWebhook(g, url, events)
  \/ \E id \in 1..MaxWebhooks : ToggleWebhook(id)
  \/ \E g \in Guilds, eventType \in EventTypes : TriggerEvent(g, eventType)
  \/ \E ok \in BOOLEAN :
        \/ GetWebhooksSettles(ok)
        \/ PostSettles(ok)
        \/ TriggerCountSettles(ok)
  \/ VisitWebhook
  \/ HubReturn

SpecHub == Init /\ [][NextHub]_vars

\* whitelistings and rate-limited requests while time passes
NextLimiter ==
  \/ \E id \in Identifiers, durationS \in WhitelistDurationsS :
        AddWhitelist(id, durationS)
  \/ \E id \in Identifiers, cleanup \in BOOLEAN :
        \/ CheckLimit(id, cleanup)
        \/ ApiRequest(id, cleanup)
  \/ Advance(MaxLimiterTicks)

SpecLimiter == Init /\ [][NextLimiter]_vars

\* checks of texts and guild names on the one filter instance
NextFilter ==
  \E text \in Texts : IsOffensive(text) \/ CheckGuild(text)

SpecFilter == Init /\ [][NextFilter]_vars

\* a chain that is created, extended by mining, reloaded and validated
NextChain ==
  \/ Initialize
  \/ Restart
  \/ \E reporterId \in Miners \ {"system"} : ReportThreat(reporterId)
  \/ AutoMine
  \/ IsValidChain
  \/ Tick

SpecChain == Init /\ [][NextChain]_vars

\* backups and restores of a database that is being written
NextBackup ==
  \/ DbWrite
  \/ \E type \in BackupTypes : CreateBackup(type)
  \/ \E ok \in BOOLEAN :
        \/ CreateCopySettles(ok)
        \/ CreateStatSettles(ok)
        \/ CreateMetaSettles(ok)
        \/ RestoreCopySettles(ok)
  \/ CreateReturn
  \/ \E content \in 0..MaxDbVersion : RestoreBackup(content)
  \/ RestoreAccessSettles
  \/ RestoreReturn

SpecBackup == Init /\ [][NextBackup]_vars

\* the scheduled backups of one instant
NextSchedule ==
  \/ \E types \in DueSets : ScheduledTick(types)
  \/ \E i \in 1..Len(ScheduleTypes) : CronFires(ScheduleTypes[i])
  \/ \E ok \in BOOLEAN :
        \/ CreateCopySettles(ok)
        \/ CreateStatSettles(ok)
        \/ CreateMetaSettles(ok)
  \/ CreateReturn

SpecSchedule == Init /\ [][NextSchedule]_vars

\* health checks of one shard or cluster, up to MaxRuns of them at a time
NextMonitor ==
  \/ \E kind \in MonitorKinds : Start(kind)
  \/ \E r \in Runs : CheckShard(r)
  \/ \E r \in Runs, metrics \in EvalResults, killOk \in BOOLEAN :
        EvalSettles(r, metrics, killOk)
  \/ \E r \in Runs, ok \in BOOLEAN : RespawnSettles(r, ok)

SpecMonitor == Init /\ [][NextMonitor]_vars

\* one ban add, kick or timeout add command at a time
NextModeration ==
  \/ \E command \in Commands, invoker \in Users \ {BotId}, target \in Users,
        invokerPosition \in Positions, targetPosition \in Positions,
        inGuild \in BOOLEAN, manageable \in BOOLEAN, durationOk \in BOOLEAN :
        Execute(command, invoker, target, invokerPosition, targetPosition,
                inGuild, manageable, durationOk)
  \/ \E ok \in BOOLEAN :
        \/ MemberFetched(ok)
        \/ BotMemberFetched(ok)
        \/ ModerationSettles(ok)
  \/ CommandReturn

SpecModeration == Init /\ [][NextModeration]_vars

\* rate limit checks of one key over Redis, their steps interleaving
NextRedis ==
  \/ \E r \in RedisRuns : CheckRedisLimit(r)
  \/ \E r \in RedisRuns, ok \in BOOLEAN :
        \/ ZAddSettles(r, ok)
        \/ ZRemSettles(r, ok)
        \/ ZCardSettles(r, ok)
        \/ ExpireSettles(r, ok)
  \/ Advance(MaxLimiterTicks)

SpecRedis == Init /\ [][NextRedis]_vars

\* rolling and batch restarts of up to MaxClusters clusters
NextRolling ==
  \/ \E size \in 1..MaxClusters, clusterOrder \in ClusterOrders :
        RollingRestart(size, clusterOrder)
  \/ \E size \in 1..MaxClusters, batchSize \in BatchSizes :
        BatchRestart(size, batchSize)
  \/ \E ok \in BOOLEAN : Kill(ok) \/ SpawnSettles(ok)
  \/ SleepSettles
  \/ DelaySettles

SpecRolling == Init /\ [][NextRolling]_vars

\* ================================================================ claims
\* C1: a channelCreate that arrives for a locked guild while no restore is
\* in progress issues the delete of the channel and returns: it never calls
\* trackAction or monitorAction, never logs and never posts to the mod log,
\* whether the delete succeeds or fails.
C1_LockdownGate ==
  \A h \in Handlers :
    LET r == handlers[h]
    IN (/\ r.kind = "channelCreate"
        /\ client.advancedAntiNuke
        /\ r.arrivedLocked
        /\ ~r.arrivedRestoring)
       => /\ r.deleted = "lockdown"
          /\ r.pc \in {"await_lock_delete", "done"}
          /\ ~r.tracked
          /\ r.monitored = "none"
          /\ ~r.logged
          /\ ~r.modLog
          /\ r.threw = "none"

\* the gate has returned after a delete that failed
C1_Witness ==
  \E h \in Handlers :
    /\ handlers[h].kind = "channelCreate"
    /\ handlers[h].arrivedLocked
    /\ handlers[h].deleted = "lockdown"
    /\ handlers[h].pc = "done"
    /\ ~handlers[h].deleteOk

\* C2: for a raid-named channel the delete is issued before the audit
\* lookup returns: while the lookup is pending the delete is already out.
C2_MitigationNotBlocked ==
  \A h \in Handlers :
    LET r == handlers[h]
    IN (r.kind = "channelCreate" /\ r.raid /\ r.pc = "await_audit")
       => r.deleted = "raid"

\* C3: a channelCreate whose audit lookup gave no executor is still tracked
\* and, when raid-named, still mitigated.
C3_UnattributedStillDetected ==
  \A h \in Handlers :
    LET r == handlers[h]
    IN (r.kind = "channelCreate" /\ r.unattributed)
       => /\ client.eventActionTracker => r.tracked
          /\ r.raid => r.deleted = "raid" /\ r.monitored = "raid"

\* C4: a guild leaves the locked set only by the explicit external unlock:
\* no handler step, engine call or passing of time removes it.
C4_LockdownOneWay ==
  [][\A g \in Guilds :
        (g \in lockedGuilds /\ g \notin lockedGuilds') => Unlock(g)]_vars

\* a locked guild after time has passed and a handler has been through the
\* engine while it was locked
C4_Witness ==
  \E h \in Handlers :
    /\ handlers[h].guild \in lockedGuilds
    /\ handlers[h].monitored = "normal"
    /\ ~handlers[h].arrivedLocked
    /\ Status(handlers[h].guild) = "Lockdown"
    /\ now > 0

\* C5: an event that arrives while its guild is in Lockdown causes no
\* further escalation call (monitorAction, handleMassAction) while the
\* guild is still locked.
C5_EscalatesOnce ==
  [][\A h \in Handlers :
        (/\ handlers[h].arrivedLocked
         /\ handlers[h].guild \in lockedGuilds
         /\ handlers'[h].kind = handlers[h].kind)
        => /\ handlers'[h].escalated = handlers[h].escalated
           /\ handlers'[h].monitored = handlers[h].monitored]_vars

\* C6: the monitorAction call for a raid-named channel carries the instant
\* trigger: it leaves the guild in Lockdown whatever the count of the actor
\* is and whether the guild was Normal or Monitoring.
C6_InstantTrigger ==
  [][\A h \in Handlers :
        (/\ handlers[h].raid
         /\ handlers[h].monitored = "none"
         /\ handlers'[h].monitored # "none")
        => Status(handlers[h].guild)' = "Lockdown"]_vars

\* a guild in Monitoring was locked by the raid channel of an actor whose
\* count is not above the soft threshold
C6_Witness ==
  \E h \in Handlers :
    /\ handlers[h].pc = "await_monitor"
    /\ handlers[h].monitored = "raid"
    /\ handlers[h].guild \in lockedGuilds
    /\ handlers[h].guild \in monitoring
    /\ getCount(actionWindows, handlers[h].guild, handlers[h].entry.actor,
                WindowMs) <= SoftThreshold

\* C7: an audit entry is the attribution of an event only if its target is
\* the target of the event and it is younger than the tolerance.
C7_AttributionChecked ==
  \A h \in Handlers :
    handlers[h].entry.actor # NULL
      => handlers[h].entry.targetMatched /\ handlers[h].entry.fresh

\* C8: a handler of a mutating event that arrives for a locked guild does
\* none of its normal logging.
C8_GateEverywhere ==
  \A h \in Handlers :
    LET r == handlers[h]
    IN (/\ r.kind \in {"channelCreate", "webhooksUpdate", "guildBanRemove"}
        /\ r.arrivedLocked
        /\ ~r.arrivedRestoring)
       => ~r.logged

\* C9: no failure of the audit lookup leaves a handler, and a handler whose
\* lookup failed or gave no usable entry has no attribution and has called
\* neither the tracker nor the engine.
C9_AuditFailureCaught ==
  \A h \in Handlers :
    LET r == handlers[h]
    IN /\ r.threw # "audit"
       /\ r.auditError => r.unattributed
       /\ r.unattributed
            => /\ r.entry = NoEntry
               /\ ~r.tracked
               /\ r.monitored = "none"
               /\ ~r.escalated

\* the lookup of a channelCreate was rejected and the handler went on
C9_Witness ==
  \E h \in Handlers :
    /\ handlers[h].kind = "channelCreate"
    /\ handlers[h].auditError
    /\ handlers[h].pc = "await_config"

\* C10: when the delete of a raid-named channel fails, nothing is thrown,
\* monitorAction is still called for the raid channel and the guild is in
\* Lockdown.
C10_FailedDeleteStillEscalates ==
  [][\A h \in Handlers :
        (/\ handlers[h].pc = "await_raid_delete"
         /\ handlers'[h].pc # "await_raid_delete"
         /\ ~handlers'[h].deleteOk)
        => /\ handlers'[h].threw = "none"
           /\ handlers'[h].pc = "await_monitor"
           /\ handlers'[h].monitored = "raid"
           /\ handlers[h].guild \in lockedGuilds']_vars

\* the delete of the raid channel failed, the engine was called and the
\* guild is locked
C10_Witness ==
  \E h \in Handlers :
    /\ handlers[h].deleted = "raid"
    /\ handlers[h].pc = "await_monitor"
    /\ ~handlers[h].deleteOk
    /\ handlers[h].monitored = "raid"
    /\ handlers[h].guild \in lockedGuilds

\* the tracked calls of a key that lie inside the trailing window
CallsInWindow(calls, t) ==
  Cardinality({i \in 1..Len(calls) : calls[i] >= t - WindowMs})

\* C11: when all N actions tracked for a (guild, actor) lie inside the
\* trailing window, getCount returns exactly N.
C11_CountsExactly ==
  \A k \in Guilds \X Actors :
    (\A i \in 1..Len(trackCalls[k]) : trackCalls[k][i] >= now - WindowMs)
      => getCount(actionWindows, k[1], k[2], WindowMs) = Len(trackCalls[k])

\* three actions of one actor at two different times, all in the window
C11_Witness ==
  \E k \in Guilds \X Actors :
    /\ Len(trackCalls[k]) = 3
    /\ trackCalls[k][1] < trackCalls[k][3]
    /\ trackCalls[k][1] >= now - WindowMs
    /\ getCount(actionWindows, k[1], k[2], WindowMs) = 3

\* C12: the window a sweep leaves holds no entry older than the window
\* length, is in time order, and holds exactly the tracked actions that are
\* not older: getCount counts no stale event.
C12_SweptWindow ==
  [][\A k \in Guilds \X Actors :
        actionWindows'[k] # actionWindows[k]
          => LET window == actionWindows'[k]
             IN /\ \A i \in 1..Len(window) :
                      /\ window[i] >= now' - WindowMs
                      /\ i > 1 => window[i - 1] <= window[i]
                /\ Len(window) = CallsInWindow(trackCalls'[k], now')]_vars

\* a sweep has dropped a stale entry and kept a fresh one
C12_Witness ==
  \E k \in Guilds \X Actors :
    /\ Len(actionWindows[k]) > 0
    /\ Len(actionWindows[k]) < Len(trackCalls[k])
    /\ actionWindows[k][Len(actionWindows[k])] = now

C14_IndependentMitigation ==
  [][\A h \in Handlers :
        LET r == handlers[h]
            after == handlers'[h]
        IN (/\ r.kind = "channelCreate"
            /\ r.pc = "await_audit"
            /\ after.pc # "await_audit"
            /\ after.entry.actor # NULL)
           => /\ after.tracked = client.eventActionTracker
              /\ after.monitored = "normal" \/ after.deleted = "raid"
              /\ (/\ after.monitored = "normal"
                  /\ EntersLockdown(actionWindows', r.guild,
                                    after.entry.actor, FALSE))
                   => r.guild \in lockedGuilds'
              /\ r.guild \in lockedGuilds => r.guild \in lockedGuilds']_vars

\* both actors are above the hard threshold, the second was evaluated
\* after the guild had been locked for the first
C14_Witness ==
  /\ \A a \in Actors :
        getCount(actionWindows, "g1", a, WindowMs) > HardThreshold
  /\ "g1" \in lockedGuilds
  /\ \A h \in Handlers :
        /\ handlers[h].pc = "await_monitor"
        /\ handlers[h].monitored = "normal"
        /\ ~handlers[h].arrivedLocked
  /\ handlers["h1"].entry.actor # handlers["h2"].entry.actor

\* C15: triggerEvent never rejects, and when it has resolved every enabled
\* webhook of the guild that subscribes to the event and has an allowed URL
\* has had its delivery attempted, whatever happened to the other webhooks.
C15_FireAndForget ==
  LET c == hub.call
  IN /\ ~c.rejected
     /\ c.pc = "done"
          => \A k \in 1..Len(c.webhooks) :
                LET w == c.webhooks[k]
                IN (/\ w.enabled
                    /\ Parse(w.events) = JsonArray(<<c.eventType>>)
                    /\ UrlCheck(w.webhook_url) = "ok")
                   => w.id \in c.attempted

\* C16: an identifier is whitelisted from addWhitelist until its duration
\* has passed, and no request of a whitelisted identifier is denied, by
\* checkLimit or by the middleware.
C16_WhitelistExempts ==
  /\ \A id \in Identifiers :
        (/\ limiter.whitelist[id].whitelisted
         /\ now < limiter.whitelist[id].expires)
        => isWhitelisted(limiter.whitelist, id)
  /\ limiter.last.whitelisted
       => limiter.last.allowed /\ limiter.last.status # 429

\* C17: every call of isOffensive returns true exactly when the text
\* contains one of the terms, whatever the filter checked before.
C17_IsOffensiveStateless ==
  filter.last.via # "none"
    => filter.last.returned = ContainsTerm(filter.last.text)

\* C18: a chain that initialize created and only mineBlock extended is
\* valid: no call of isValidChain returns false.
C18_MinedChainValid == chain.valid # "false"

\* C19: when restoreBackup overwrites the database file, a pre-restore
\* backup holding the database as it was before exists.
C19_PreRestoreBackup ==
  [][(/\ backup.restore.pc = "await_copy"
      /\ backup'.restore.pc = "done"
      /\ backup'.restore.threw = "none")
     => \E f \in backup.files :
           f.type = "pre-restore" /\ f.content = backup.db]_vars

\* C20: a restart begins only with a failed check that is at least the
\* third in a row, every such check begins one, and a healthy check leaves
\* the count of failed checks at 0.
C20_RestartAtThreshold ==
  [][/\ monitor'.restarts # monitor.restarts
        => monitor.streak + 1 >= unhealthyThreshold
     /\ (monitor'.streak = monitor.streak + 1
         /\ monitor'.streak >= unhealthyThreshold)
        => monitor'.restarts # monitor.restarts
     /\ (/\ \E r \in Runs : /\ monitor.runs[r].pc = "await_eval"
                             /\ monitor'.runs[r].pc = "idle"
         /\ monitor'.restarts = monitor.restarts
         /\ monitor'.streak = 0)
        => getShardHealth(monitor').failedChecks = 0]_vars

\* C21: Moderation.ban, kick or mute is called only for a target that is
\* neither the invoker nor the owner and, when the target is a member of the
\* guild and the invoker is not the owner, has a highest role strictly below
\* the invoker's.
C21_HierarchyBeforeAction ==
  moderation.executed =>
    /\ moderation.target # moderation.invoker
    /\ moderation.target # OwnerId
    /\ (moderation.inGuild /\ moderation.invoker # OwnerId)
         => moderation.targetPosition < moderation.invokerPosition

\* C22: of the calls that checkLimit answered allowed: true from their
\* count, at most `points` lie in any window of `duration` seconds that ends
\* with one of them.
C22_AtMostPointsPerWindow ==
  \A i \in 1..Len(redis.allowedAt) :
     Cardinality({j \in 1..Len(redis.allowedAt) :
                    /\ redis.allowedAt[j] <= redis.allowedAt[i]
                    /\ redis.allowedAt[j]
                         > redis.allowedAt[i] - HeavyDurationS * 1000})
       <= HeavyPoints

\* C23: at most one restart of the shard (or cluster) is in flight.
C23_OneRestartInFlight ==
  Cardinality({r \in Runs : monitor.runs[r].pc = "await_respawn"}) <= 1

\* C24: no createBackup call of a schedule that is due is skipped.
C24_EveryTickBacksUp ==
  \A i \in 1..Len(ScheduleTypes) : ScheduleTypes[i] \notin backup.skipped

\* a createBackup of its own, or a restoreBackup, is between setting running
\* and its finally
CreateActive(b) == b.create.pc \in {"await_copy", "await_stat", "await_meta"}
RestoreActive(b) ==
  b.restore.pc \in {"await_access", "await_pre", "await_copy"}

\* C25: never are a createBackup and a restoreBackup at work together, and
\* running is true exactly while one of them is; a createBackup called while
\* running is true returns null and copies nothing; a restoreBackup called
\* while running is true throws and leaves the database alone.
C25_MutuallyExclusive ==
  [][/\ ~(CreateActive(backup') /\ RestoreActive(backup'))
     /\ backup'.running <=> (CreateActive(backup') \/ RestoreActive(backup'))
     /\ (~CreateActive(backup) /\ CreateActive(backup')) => ~backup.running
     /\ backup'.skipped # backup.skipped
          => /\ backup.running
             /\ backup'.files = backup.files
             /\ backup'.create = backup.create
     /\ (backup.restore.pc = "idle" /\ backup'.restore.pc # "idle")
          => IF backup.running
               THEN /\ backup'.restore.threw = "in progress"
                    /\ backup'.db = backup.db
                    /\ backup'.files = backup.files
               ELSE backup'.restore.pc = "await_access"]_vars

C25_Witness ==
  /\ "manual" \in backup.skipped
  /\ backup.restore.threw = "in progress"
  /\ CreateActive(backup)

\* C26: a restart() or batchRestart() called while an operation is in
\* progress kills no cluster and changes nothing of the running operation,
\* and isInProgress() is true exactly while an operation runs, whether or
\* not a cluster failed.
C26_RestartsExclusive ==
  [][/\ rolling'.refused # rolling.refused
          => /\ isInProgress(rolling)
             /\ rolling' = Refuses(rolling)
     /\ Len(rolling'.killed) > Len(rolling.killed) => rolling.pc = "kill"
     /\ isInProgress(rolling') <=> rolling'.pc # "idle"]_vars

C26_Witness ==
  /\ rolling.refused > 0
  /\ rolling.failed
  /\ rolling.operations > 0
  /\ rolling.killed # <<>>
  /\ ~isInProgress(rolling)

\* C27: in restart, of the clusters the loop is done with, the delay was
\* waited after exactly those that restarted successfully and are not the
\* last of the order.
C27_DelayExceptLast ==
  rolling.kind = "restart" =>
    \A k \in 1..Len(rolling.clusters) :
       (k < rolling.i /\ rolling.clusters[k] \in rolling.succeeded)
         => (rolling.clusters[k] \in rolling.delayed
               <=> k < Len(rolling.clusters))

====
